---- MODULE Spec2Model ----
(***************************************************************************)
(* A model of tsk (denyzhirkov/tsk): the SQLite-backed task and memory     *)
(* store of src/main.rs and the MCP (JSON-RPC over stdio) server of        *)
(* src/mcp.rs.                                                             *)
(*                                                                         *)
(* Conventions                                                             *)
(*   - a Rust String that the code inspects character by character (ids)   *)
(*     is a sequence of one-character strings; other text is a TLA+ string *)
(*   - Option<T>:  None is <<>>, Some(x) is <<x>>                          *)
(*   - Result<T>:  [ok |-> TRUE, val |-> v, err |-> <<>>] or               *)
(*                 [ok |-> FALSE, val |-> <<>>, err |-> chain], where      *)
(*     chain is the anyhow context chain, outermost message first; a       *)
(*     message is <<format string, arguments...>>                          *)
(*   - a table is the sequence of its rows in rowid order                  *)
(*   - a store function f(conn, ...) is an operator f(db, ...) that        *)
(*     returns [res |-> Result, db |-> the store after the call]           *)
(***************************************************************************)
EXTENDS Integers, Sequences, FiniteSets, TLC

VARIABLES
    dbExists,   \* .tsk/tsk.sqlite exists in the current directory
    tasks,      \* rows of table tasks
    memories,   \* rows of table memories
    meta,       \* rows of table meta: a set of <<key, value>>
    schema,     \* the tables, and the later-added columns of tasks, that exist
    clock,      \* CURRENT_TIMESTAMP, in seconds
    last,       \* the last command: what was asked and what came back
    request,    \* the last line the protocol server read from stdin
    reply,      \* the response the server wrote for that line, if it wrote one
    opens,      \* how often the server process has opened the store, up to MaxOpens
    serverUp,   \* the protocol server process is in its loop
    procs       \* SpecRace: where each of two concurrent processes is in its operation

vars ==
    <<dbExists, tasks, memories, meta, schema, clock, last, request, reply, opens, serverUp,
      procs>>

----------------------------------------------------------------------------
(* Bounds of the model *)

MaxRows == 2     \* rows the two tables hold together
MaxClock == 1    \* the last second of the clock
MaxOpens == 2    \* the count of store opens stops here

----------------------------------------------------------------------------
(* Option and Result *)

None == <<>>
Some(x) == <<x>>
IsSome(o) == Len(o) = 1
Unwrap(o) == o[1]

Ok(v) == [ok |-> TRUE, val |-> v, err |-> <<>>]
Err(chain) == [ok |-> FALSE, val |-> <<>>, err |-> chain]
\* bail!(fmt, args): a fresh anyhow error whose chain is the one message
Bail(msg) == Err(<<msg>>)
\* anyhow::Error's Display prints the outermost message of the chain
to_string(e) == e[1]

----------------------------------------------------------------------------
(* Identifiers: src/main.rs generate_id, validate_id *)

CHARSET == << "a","b","c","d","e","f","g","h","i","j","k","l","m",
              "n","o","p","q","r","s","t","u","v","w","x","y","z",
              "0","1","2","3","4","5","6","7","8","9" >>

IdLen == 6
MaxAttempts == 100

AsciiLowercase == { "a","b","c","d","e","f","g","h","i","j","k","l","m",
                    "n","o","p","q","r","s","t","u","v","w","x","y","z" }
AsciiDigit == { "0","1","2","3","4","5","6","7","8","9" }

is_ascii_lowercase(c) == c \in AsciiLowercase
is_ascii_digit(c) == c \in AsciiDigit

\* a candidate one character short
CandidateOf_Short(idx) == [k \in 1..(IdLen - 1) |-> CHARSET[idx[k] + 1]]

\* one candidate: IdLen indices drawn by rng.gen_range(0..CHARSET.len()), mapped
\* through CHARSET and collected
CandidateOf(idx) == [k \in 1..IdLen |-> CHARSET[idx[k] + 1]]

\* the index draws the model lets the rng make: they give "aaaaaa" and "999999"
DrawPool == { [k \in 1..IdLen |-> i] : i \in {0, 35} }

\* the candidates of one call, attempt by attempt: the model lets the rng draw c on
\* every attempt but the last and d on the last
DrawSeqs ==
    { [a \in 1..MaxAttempts |-> IF a < MaxAttempts THEN CandidateOf(c) ELSE CandidateOf(d)] :
        c \in DrawPool, d \in DrawPool }

IdPool == { CandidateOf(idx) : idx \in DrawPool }

\* ids a caller may type: the well-formed ones and two malformed ones
\* (a wrong length, a character outside [a-z0-9])
BadIds == { <<"a","b","c">>, <<"A","a","a","a","a","a">> }
InputIds == IdPool \cup BadIds

MsgInvalidId == "Invalid task ID '{}'. Must be 6 characters [a-z0-9]."

\* validate_id checking the length only
validate_id_LengthOnly(id) ==
    IF Len(id) # IdLen THEN Bail(<<MsgInvalidId, id>>) ELSE Ok(<<>>)

validate_id(id) ==
    IF Len(id) # IdLen
       \/ ~(\A i \in 1..Len(id) : is_ascii_lowercase(id[i]) \/ is_ascii_digit(id[i]))
    THEN Bail(<<MsgInvalidId, id>>)
    ELSE Ok(<<>>)

\* SELECT COUNT(*) FROM table WHERE id = ?1
CountId(table, id) == Cardinality({ i \in DOMAIN table : table[i].id = id })

\* count > 0
id_exists_in_table(table, id) == \E i \in DOMAIN table : table[i].id = id

MsgExhausted == "Failed to generate unique ID after 100 attempts"

\* generate_id giving up after its first attempt
generate_id_OneAttempt(table, draws) ==
    IF id_exists_in_table(table, draws[1]) THEN Bail(<<MsgExhausted>>) ELSE Ok(draws[1])

\* for _ in 0..100: the first attempt whose candidate is not in the table returns it;
\* draws[a] is the candidate of attempt a
generate_id(table, draws) ==
    LET free == { a \in 1..MaxAttempts : ~id_exists_in_table(table, draws[a]) }
        first == CHOOSE a \in free : \A b \in free : a <= b
    IN  IF free = {} THEN Bail(<<MsgExhausted>>) ELSE Ok(draws[first])

----------------------------------------------------------------------------
(* The store: src/main.rs init_db, migrate_db *)

\* the connection's view of the database file
Db == [tasks |-> tasks, memories |-> memories, meta |-> meta, schema |-> schema]

\* a file that Connection::open has just created
EmptyDb == [tasks |-> <<>>, memories |-> <<>>, meta |-> {}, schema |-> {}]

\* CREATE TABLE IF NOT EXISTS tasks (with parent_id, depend_id), meta, memories
init_db(db) ==
    [db EXCEPT !.schema =
        (IF "tasks" \in @ THEN @ ELSE @ \cup {"tasks", "tasks.parent_id", "tasks.depend_id"})
        \cup {"meta", "memories"}]

\* CAST(value AS INTEGER) of the text values the program writes; other text casts to 0
CastInteger(text) ==
    CASE text = "1" -> 1
      [] text = "2" -> 2
      [] text = "3" -> 3
      [] OTHER -> 0

\* SELECT CAST(value AS INTEGER) FROM meta WHERE key = 'schema_version', .unwrap_or(0)
SchemaVersion(m) ==
    LET rows == { r \in m : r[1] = "schema_version" }
    IN  IF rows = {} THEN 0 ELSE CastInteger((CHOOSE r \in rows : TRUE)[2])

\* INSERT OR REPLACE INTO meta (key, value) VALUES (k, v)
InsertOrReplaceMeta(m, k, v) == { r \in m : r[1] # k } \cup { <<k, v>> }

\* the UPDATE of migration v1 left out
MigrateV1Rows_NoUpdate(rows) == rows

\* migration v1 deleting the rows with done = 1
MigrateV1Rows_Delete(rows) ==
    LET Keep(r) == r.done # 1 IN SelectSeq(rows, Keep)

\* UPDATE tasks SET done = 2 WHERE done = 1
MigrateV1Rows(rows) ==
    [i \in DOMAIN rows |-> IF rows[i].done = 1 THEN [rows[i] EXCEPT !.done = 2] ELSE rows[i]]

\* migrate_db running migration v1 whatever the schema_version
migrate_db_NoVersionCheck(db) ==
    LET cols == [db EXCEPT !.schema = @ \cup {"meta", "tasks.parent_id", "tasks.depend_id"}]
    IN  [cols EXCEPT !.tasks = MigrateV1Rows(@),
                     !.schema = @ \cup {"memories"},
                     !.meta = InsertOrReplaceMeta(@, "schema_version", "2")]

migrate_db(db) ==
    LET cols == [db EXCEPT !.schema = @ \cup {"meta", "tasks.parent_id", "tasks.depend_id"}]
        schema_version == SchemaVersion(cols.meta)
        v1 == IF schema_version < 1
              THEN [cols EXCEPT !.tasks = MigrateV1Rows(@),
                                !.meta = InsertOrReplaceMeta(@, "schema_version", "1")]
              ELSE cols
        v2 == IF schema_version < 2
              THEN [v1 EXCEPT !.schema = @ \cup {"memories"},
                              !.meta = InsertOrReplaceMeta(@, "schema_version", "2")]
              ELSE v1
    IN  v2

----------------------------------------------------------------------------
(* Task store: src/main.rs create_task .. remove_task *)

\* SELECT COUNT(*) FROM tasks WHERE id = ?1
task_exists(db, id) == CountId(db.tasks, id) > 0

\* the row with this id (the primary key admits at most one)
RowOf(table, id) == table[CHOOSE i \in DOMAIN table : table[i].id = id]

\* SELECT done FROM tasks WHERE id = ?1: Some(done == 2), or None without a row
task_is_done(db, id) ==
    IF CountId(db.tasks, id) = 0 THEN None ELSE Some(RowOf(db.tasks, id).done = 2)

\* INSERT: the primary key rejects an id that is already in the table
MsgUnique == "UNIQUE constraint failed"

\* INSERT into a table whose id column is no primary key
InsertRow_NoPrimaryKey(table, row) == Ok(Append(table, row))

InsertRow(table, row) ==
    IF CountId(table, row.id) > 0 THEN Bail(<<MsgUnique, row.id>>) ELSE Ok(Append(table, row))

\* UPDATE/DELETE ... WHERE id = ?1
UpdateRows(table, id, column, value) ==
    [i \in DOMAIN table |->
        IF table[i].id = id THEN [table[i] EXCEPT ![column] = value] ELSE table[i]]

DeleteRows(table, id) ==
    LET Keep(r) == r.id # id IN SelectSeq(table, Keep)

MsgParentNotFound == "Parent task '{}' not found."
MsgDependNotFound == "Dependency task '{}' not found."
MsgTaskNotFound == "Task '{}' not found."
MsgInProgress == "Task '{}' is already in progress."
MsgAlreadyDone == "Task '{}' is already done."
MsgDependsNotDone == "Cannot complete: depends on '{}' which is not done."
MsgActiveDependents == "Cannot remove: {} active task(s) depend on '{}'."
MsgHasChildren == "Cannot remove: {} task(s) have '{}' as parent."

\* the reference check create_task and list_tasks make on an optional id
CheckRef(db, ref, notFound) ==
    IF ~IsSome(ref) THEN Ok(<<>>)
    ELSE IF ~validate_id(Unwrap(ref)).ok THEN validate_id(Unwrap(ref))
    ELSE IF ~task_exists(db, Unwrap(ref)) THEN Bail(<<notFound, Unwrap(ref)>>)
    ELSE Ok(<<>>)

\* create_task without the check of depend
create_task_NoDependCheck(db, title, description, parent, depend, draws, now) ==
    LET p == CheckRef(db, parent, MsgParentNotFound)
        id == generate_id(db.tasks, draws)
        row == [id |-> id.val, title |-> title, description |-> description, done |-> 0,
                parent_id |-> parent, depend_id |-> depend, created_at |-> now]
        ins == InsertRow(db.tasks, row)
    IN  IF ~p.ok THEN [res |-> p, db |-> db]
        ELSE IF ~id.ok THEN [res |-> id, db |-> db]
        ELSE IF ~ins.ok THEN [res |-> ins, db |-> db]
        ELSE [res |-> Ok(id.val), db |-> [db EXCEPT !.tasks = ins.val]]

\* draws: the rng's draws; now: CURRENT_TIMESTAMP at the INSERT
create_task(db, title, description, parent, depend, draws, now) ==
    LET p == CheckRef(db, parent, MsgParentNotFound)
        d == CheckRef(db, depend, MsgDependNotFound)
        id == generate_id(db.tasks, draws)
        row == [id |-> id.val, title |-> title, description |-> description, done |-> 0,
                parent_id |-> parent, depend_id |-> depend, created_at |-> now]
        ins == InsertRow(db.tasks, row)
    IN  IF ~p.ok THEN [res |-> p, db |-> db]
        ELSE IF ~d.ok THEN [res |-> d, db |-> db]
        ELSE IF ~id.ok THEN [res |-> id, db |-> db]
        ELSE IF ~ins.ok THEN [res |-> ins, db |-> db]
        ELSE [res |-> Ok(id.val), db |-> [db EXCEPT !.tasks = ins.val]]

\* TaskStatus::from_int
from_int(value) ==
    CASE value = 0 -> "pending"
      [] value = 1 -> "in_progress"
      [] OTHER -> "done"

\* the rows a SELECT yields, in every order ORDER BY created_at permits: SQLite leaves the
\* order of rows with equal ORDER BY values undefined
OrderByCreatedAt(rows) ==
    LET n == Len(rows)
        perms == { p \in [1..n -> 1..n] :
                     /\ \A i, j \in 1..n : i # j => p[i] # p[j]
                     /\ \A i \in 1..(n - 1) :
                           rows[p[i]].created_at <= rows[p[i + 1]].created_at }
    IN  { [i \in 1..n |-> rows[p[i]]] : p \in perms }

TaskSummary(row) ==
    [id |-> row.id, title |-> row.title, status |-> from_int(row.done),
     parent_id |-> row.parent_id, depend_id |-> row.depend_id]

\* list_tasks that also selects the children of the children
list_tasks_Descendants(db, inprogress, all, parent) ==
    LET p == CheckRef(db, parent, MsgParentNotFound)
        status_filter == IF all THEN None ELSE IF inprogress THEN Some(1) ELSE Some(0)
        Below(r) == \/ r.parent_id = parent
                    \/ /\ IsSome(r.parent_id)
                       /\ \E i \in DOMAIN db.tasks :
                             /\ db.tasks[i].id = Unwrap(r.parent_id)
                             /\ db.tasks[i].parent_id = parent
        Where(r) == /\ IsSome(status_filter) => r.done = Unwrap(status_filter)
                    /\ IsSome(parent) => Below(r)
        selected == OrderByCreatedAt(SelectSeq(db.tasks, Where))
    IN  IF ~p.ok THEN { [res |-> p, db |-> db] }
        ELSE { [res |-> Ok([i \in DOMAIN rows |-> TaskSummary(rows[i])]), db |-> db] :
                 rows \in selected }

\* the set of results the call may return
list_tasks(db, inprogress, all, parent) ==
    LET p == CheckRef(db, parent, MsgParentNotFound)
        status_filter == IF all THEN None ELSE IF inprogress THEN Some(1) ELSE Some(0)
        Where(r) == /\ IsSome(status_filter) => r.done = Unwrap(status_filter)
                    /\ IsSome(parent) => r.parent_id = parent
        selected == OrderByCreatedAt(SelectSeq(db.tasks, Where))
    IN  IF ~p.ok THEN { [res |-> p, db |-> db] }
        ELSE { [res |-> Ok([i \in DOMAIN rows |-> TaskSummary(rows[i])]), db |-> db] :
                 rows \in selected }

Task(row) ==
    [id |-> row.id, title |-> row.title, description |-> row.description,
     status |-> from_int(row.done), parent_id |-> row.parent_id,
     depend_id |-> row.depend_id, created_at |-> Some(row.created_at)]

get_task(db, id) ==
    IF ~validate_id(id).ok THEN [res |-> validate_id(id), db |-> db]
    ELSE IF CountId(db.tasks, id) = 0 THEN [res |-> Bail(<<MsgTaskNotFound, id>>), db |-> db]
    ELSE [res |-> Ok(Task(RowOf(db.tasks, id))), db |-> db]

\* update_task writing the title column
update_task_Title(db, id, description) ==
    LET updated == CountId(db.tasks, id)
    IN  IF ~validate_id(id).ok THEN [res |-> validate_id(id), db |-> db]
        ELSE IF updated = 0 THEN [res |-> Bail(<<MsgTaskNotFound, id>>), db |-> db]
        ELSE [res |-> Ok(<<>>),
              db |-> [db EXCEPT !.tasks = UpdateRows(@, id, "title", description)]]

update_task(db, id, description) ==
    LET updated == CountId(db.tasks, id)
    IN  IF ~validate_id(id).ok THEN [res |-> validate_id(id), db |-> db]
        ELSE IF updated = 0 THEN [res |-> Bail(<<MsgTaskNotFound, id>>), db |-> db]
        ELSE [res |-> Ok(<<>>),
              db |-> [db EXCEPT !.tasks = UpdateRows(@, id, "description", description)]]

\* start_task without its status check
start_task_NoStatusCheck(db, id) ==
    IF ~validate_id(id).ok THEN [res |-> validate_id(id), db |-> db]
    ELSE IF CountId(db.tasks, id) = 0
         THEN [res |-> Bail(<<MsgTaskNotFound, id>>), db |-> db]
    ELSE [res |-> Ok(<<>>),
          db |-> [db EXCEPT !.tasks = UpdateRows(@, id, "done", 1)]]

\* start_task with one message for both refusals
start_task_OneMessage(db, id) ==
    LET status == RowOf(db.tasks, id).done
    IN  IF ~validate_id(id).ok THEN [res |-> validate_id(id), db |-> db]
        ELSE IF CountId(db.tasks, id) = 0
             THEN [res |-> Bail(<<MsgTaskNotFound, id>>), db |-> db]
        ELSE IF status # 0
             THEN [res |-> Bail(<<MsgInProgress, id>>), db |-> db]
        ELSE [res |-> Ok(<<>>),
              db |-> [db EXCEPT !.tasks = UpdateRows(@, id, "done", 1)]]

start_task(db, id) ==
    LET status == RowOf(db.tasks, id).done
    IN  IF ~validate_id(id).ok THEN [res |-> validate_id(id), db |-> db]
        ELSE IF CountId(db.tasks, id) = 0
             THEN [res |-> Bail(<<MsgTaskNotFound, id>>), db |-> db]
        ELSE IF status # 0
             THEN IF status = 1
                  THEN [res |-> Bail(<<MsgInProgress, id>>), db |-> db]
                  ELSE [res |-> Bail(<<MsgAlreadyDone, id>>), db |-> db]
        ELSE [res |-> Ok(<<>>),
              db |-> [db EXCEPT !.tasks = UpdateRows(@, id, "done", 1)]]

\* complete_task without its dependency check
complete_task_NoDependCheck(db, id) ==
    LET status == RowOf(db.tasks, id).done
    IN  IF ~validate_id(id).ok THEN [res |-> validate_id(id), db |-> db]
        ELSE IF CountId(db.tasks, id) = 0
             THEN [res |-> Bail(<<MsgTaskNotFound, id>>), db |-> db]
        ELSE IF status = 2
             THEN [res |-> Bail(<<MsgAlreadyDone, id>>), db |-> db]
        ELSE [res |-> Ok(<<>>),
              db |-> [db EXCEPT !.tasks = UpdateRows(@, id, "done", 2)]]

complete_task(db, id) ==
    LET status == RowOf(db.tasks, id).done
        depend_id == RowOf(db.tasks, id).depend_id
    IN  IF ~validate_id(id).ok THEN [res |-> validate_id(id), db |-> db]
        ELSE IF CountId(db.tasks, id) = 0
             THEN [res |-> Bail(<<MsgTaskNotFound, id>>), db |-> db]
        ELSE IF status = 2
             THEN [res |-> Bail(<<MsgAlreadyDone, id>>), db |-> db]
        ELSE IF IsSome(depend_id) /\ task_is_done(db, Unwrap(depend_id)) = Some(FALSE)
             THEN [res |-> Bail(<<MsgDependsNotDone, Unwrap(depend_id)>>), db |-> db]
        ELSE [res |-> Ok(<<>>),
              db |-> [db EXCEPT !.tasks = UpdateRows(@, id, "done", 2)]]

\* remove_task without its children check
remove_task_NoChildrenCheck(db, id) ==
    LET dependents == Cardinality({ i \in DOMAIN db.tasks :
                         db.tasks[i].depend_id = Some(id) /\ db.tasks[i].done < 2 })
    IN  IF ~validate_id(id).ok THEN [res |-> validate_id(id), db |-> db]
        ELSE IF ~task_exists(db, id)
             THEN [res |-> Bail(<<MsgTaskNotFound, id>>), db |-> db]
        ELSE IF dependents > 0
             THEN [res |-> Bail(<<MsgActiveDependents, dependents, id>>), db |-> db]
        ELSE [res |-> Ok(<<>>), db |-> [db EXCEPT !.tasks = DeleteRows(@, id)]]

\* remove_task counting only pending dependents (done < 1)
remove_task_PendingDependentsOnly(db, id) ==
    LET dependents == Cardinality({ i \in DOMAIN db.tasks :
                         db.tasks[i].depend_id = Some(id) /\ db.tasks[i].done < 1 })
        children == Cardinality({ i \in DOMAIN db.tasks : db.tasks[i].parent_id = Some(id) })
    IN  IF ~validate_id(id).ok THEN [res |-> validate_id(id), db |-> db]
        ELSE IF ~task_exists(db, id)
             THEN [res |-> Bail(<<MsgTaskNotFound, id>>), db |-> db]
        ELSE IF dependents > 0
             THEN [res |-> Bail(<<MsgActiveDependents, dependents, id>>), db |-> db]
        ELSE IF children > 0
             THEN [res |-> Bail(<<MsgHasChildren, children, id>>), db |-> db]
        ELSE [res |-> Ok(<<>>), db |-> [db EXCEPT !.tasks = DeleteRows(@, id)]]

\* remove_task deleting the row before it looks for children
remove_task_DeleteFirst(db, id) ==
    LET dependents == Cardinality({ i \in DOMAIN db.tasks :
                         db.tasks[i].depend_id = Some(id) /\ db.tasks[i].done < 2 })
        children == Cardinality({ i \in DOMAIN db.tasks : db.tasks[i].parent_id = Some(id) })
        deleted == [db EXCEPT !.tasks = DeleteRows(@, id)]
    IN  IF ~validate_id(id).ok THEN [res |-> validate_id(id), db |-> db]
        ELSE IF ~task_exists(db, id)
             THEN [res |-> Bail(<<MsgTaskNotFound, id>>), db |-> db]
        ELSE IF dependents > 0
             THEN [res |-> Bail(<<MsgActiveDependents, dependents, id>>), db |-> db]
        ELSE IF children > 0
             THEN [res |-> Bail(<<MsgHasChildren, children, id>>), db |-> deleted]
        ELSE [res |-> Ok(<<>>), db |-> deleted]

\* remove_task that also clears the depend_id of the tasks that named the removed one
remove_task_ClearsDependents(db, id) ==
    LET dependents == Cardinality({ i \in DOMAIN db.tasks :
                         db.tasks[i].depend_id = Some(id) /\ db.tasks[i].done < 2 })
        children == Cardinality({ i \in DOMAIN db.tasks : db.tasks[i].parent_id = Some(id) })
        kept == DeleteRows(db.tasks, id)
        cleared == [i \in DOMAIN kept |->
                       IF kept[i].depend_id = Some(id)
                       THEN [kept[i] EXCEPT !.depend_id = None] ELSE kept[i]]
    IN  IF ~validate_id(id).ok THEN [res |-> validate_id(id), db |-> db]
        ELSE IF ~task_exists(db, id)
             THEN [res |-> Bail(<<MsgTaskNotFound, id>>), db |-> db]
        ELSE IF dependents > 0
             THEN [res |-> Bail(<<MsgActiveDependents, dependents, id>>), db |-> db]
        ELSE IF children > 0
             THEN [res |-> Bail(<<MsgHasChildren, children, id>>), db |-> db]
        ELSE [res |-> Ok(<<>>), db |-> [db EXCEPT !.tasks = cleared]]

\* remove_task looking for children before it looks for dependents
remove_task_ChildrenFirst(db, id) ==
    LET dependents == Cardinality({ i \in DOMAIN db.tasks :
                         db.tasks[i].depend_id = Some(id) /\ db.tasks[i].done < 2 })
        children == Cardinality({ i \in DOMAIN db.tasks : db.tasks[i].parent_id = Some(id) })
    IN  IF ~validate_id(id).ok THEN [res |-> validate_id(id), db |-> db]
        ELSE IF ~task_exists(db, id)
             THEN [res |-> Bail(<<MsgTaskNotFound, id>>), db |-> db]
        ELSE IF children > 0
             THEN [res |-> Bail(<<MsgHasChildren, children, id>>), db |-> db]
        ELSE IF dependents > 0
             THEN [res |-> Bail(<<MsgActiveDependents, dependents, id>>), db |-> db]
        ELSE [res |-> Ok(<<>>), db |-> [db EXCEPT !.tasks = DeleteRows(@, id)]]

\* remove_task without its check for active dependents
remove_task_NoDependentsCheck(db, id) ==
    LET children == Cardinality({ i \in DOMAIN db.tasks : db.tasks[i].parent_id = Some(id) })
    IN  IF ~validate_id(id).ok THEN [res |-> validate_id(id), db |-> db]
        ELSE IF ~task_exists(db, id)
             THEN [res |-> Bail(<<MsgTaskNotFound, id>>), db |-> db]
        ELSE IF children > 0
             THEN [res |-> Bail(<<MsgHasChildren, children, id>>), db |-> db]
        ELSE [res |-> Ok(<<>>), db |-> [db EXCEPT !.tasks = DeleteRows(@, id)]]

remove_task(db, id) ==
    LET dependents == Cardinality({ i \in DOMAIN db.tasks :
                         db.tasks[i].depend_id = Some(id) /\ db.tasks[i].done < 2 })
        children == Cardinality({ i \in DOMAIN db.tasks : db.tasks[i].parent_id = Some(id) })
    IN  IF ~validate_id(id).ok THEN [res |-> validate_id(id), db |-> db]
        ELSE IF ~task_exists(db, id)
             THEN [res |-> Bail(<<MsgTaskNotFound, id>>), db |-> db]
        ELSE IF dependents > 0
             THEN [res |-> Bail(<<MsgActiveDependents, dependents, id>>), db |-> db]
        ELSE IF children > 0
             THEN [res |-> Bail(<<MsgHasChildren, children, id>>), db |-> db]
        ELSE [res |-> Ok(<<>>), db |-> [db EXCEPT !.tasks = DeleteRows(@, id)]]

\* SELECT id FROM tasks WHERE done < 2: the ids as a set, the SELECT naming no order
get_task_ids(db) ==
    [res |-> Ok({ db.tasks[i].id : i \in { j \in DOMAIN db.tasks : db.tasks[j].done < 2 } }),
     db |-> db]

----------------------------------------------------------------------------
(* Memory store: src/main.rs create_memory .. remove_memory *)

MsgMemoryNotFound == "Memory '{}' not found."
MsgNoRows == "Query returned no rows"

\* SELECT COUNT(*) FROM memories WHERE id = ?1
memory_exists(db, id) == CountId(db.memories, id) > 0

\* create_memory with an allocator that also refuses the ids of the tasks table
create_memory_SharedIds(db, content, tags, draws, now) ==
    LET id == generate_id(db.tasks \o db.memories, draws)
        row == [id |-> id.val, content |-> content, tags |-> tags, created_at |-> now]
        ins == InsertRow(db.memories, row)
    IN  IF ~id.ok THEN [res |-> id, db |-> db]
        ELSE IF ~ins.ok THEN [res |-> ins, db |-> db]
        ELSE [res |-> Ok(id.val), db |-> [db EXCEPT !.memories = ins.val]]

create_memory(db, content, tags, draws, now) ==
    LET id == generate_id(db.memories, draws)
        row == [id |-> id.val, content |-> content, tags |-> tags, created_at |-> now]
        ins == InsertRow(db.memories, row)
    IN  IF ~id.ok THEN [res |-> id, db |-> db]
        ELSE IF ~ins.ok THEN [res |-> ins, db |-> db]
        ELSE [res |-> Ok(id.val), db |-> [db EXCEPT !.memories = ins.val]]

Memory(row) ==
    [id |-> row.id, content |-> row.content, tags |-> row.tags,
     created_at |-> Some(row.created_at)]

\* query_row(..).context("Memory '{}' not found."): the rusqlite error, wrapped
get_memory(db, id) ==
    IF ~validate_id(id).ok THEN [res |-> validate_id(id), db |-> db]
    ELSE IF CountId(db.memories, id) = 0
         THEN [res |-> Err(<< <<MsgMemoryNotFound, id>>, <<MsgNoRows>> >>), db |-> db]
    ELSE [res |-> Ok(Memory(RowOf(db.memories, id))), db |-> db]

\* ASCII letters, for LIKE, which ignores their case
AsciiUpper == << "A","B","C","D","E","F","G","H","I","J","K","L","M",
                 "N","O","P","Q","R","S","T","U","V","W","X","Y","Z" >>
AsciiLower == << "a","b","c","d","e","f","g","h","i","j","k","l","m",
                 "n","o","p","q","r","s","t","u","v","w","x","y","z" >>

FoldCase(c) ==
    IF \E k \in DOMAIN AsciiUpper : AsciiUpper[k] = c
    THEN AsciiLower[CHOOSE k \in DOMAIN AsciiUpper : AsciiUpper[k] = c]
    ELSE c

\* text LIKE pattern: % matches any run of characters, _ any one character, and
\* ASCII letters match without regard to case
RECURSIVE Like(_, _)
Like(text, pattern) ==
    IF pattern = <<>> THEN text = <<>>
    ELSE IF Head(pattern) = "%"
         THEN \E k \in 0..Len(text) : Like(SubSeq(text, k + 1, Len(text)), Tail(pattern))
    ELSE IF text = <<>> THEN FALSE
    ELSE /\ Head(pattern) = "_" \/ FoldCase(Head(pattern)) = FoldCase(Head(text))
         /\ Like(Tail(text), Tail(pattern))

\* format!("%{}%", t)
Contains(t) == <<"%">> \o t \o <<"%">>

\* the rows a SELECT yields, in every order ORDER BY created_at DESC permits
OrderByCreatedAtDesc(rows) ==
    LET n == Len(rows)
        perms == { p \in [1..n -> 1..n] :
                     /\ \A i, j \in 1..n : i # j => p[i] # p[j]
                     /\ \A i \in 1..(n - 1) :
                           rows[p[i]].created_at >= rows[p[i + 1]].created_at }
    IN  { [i \in 1..n |-> rows[p[i]]] : p \in perms }

\* Vec::truncate
truncate(vec, n) == IF n < Len(vec) THEN SubSeq(vec, 1, n) ELSE vec

\* the set of results the call may return; a NULL tags is LIKE nothing
list_memories(db, tag, last_n) ==
    LET Where(r) == IsSome(tag) => (IsSome(r.tags) /\ Like(Unwrap(r.tags), Contains(Unwrap(tag))))
        selected == OrderByCreatedAtDesc(SelectSeq(db.memories, Where))
    IN  { [res |-> Ok(IF IsSome(last_n)
                      THEN truncate([i \in DOMAIN rows |-> Memory(rows[i])], Unwrap(last_n))
                      ELSE [i \in DOMAIN rows |-> Memory(rows[i])]),
           db |-> db] : rows \in selected }

\* the set of results the call may return
search_memories(db, query) ==
    LET Where(r) == Like(r.content, Contains(query))
        selected == OrderByCreatedAtDesc(SelectSeq(db.memories, Where))
    IN  { [res |-> Ok([i \in DOMAIN rows |-> Memory(rows[i])]), db |-> db] : rows \in selected }

remove_memory(db, id) ==
    IF ~validate_id(id).ok THEN [res |-> validate_id(id), db |-> db]
    ELSE IF ~memory_exists(db, id)
         THEN [res |-> Bail(<<MsgMemoryNotFound, id>>), db |-> db]
    ELSE [res |-> Ok(<<>>), db |-> [db EXCEPT !.memories = DeleteRows(@, id)]]

----------------------------------------------------------------------------
(* The command line: src/main.rs main, cmd_init, cmd_create .. cmd_memory_remove *)

Titles == { "A" }
Descriptions == { "desc" }
NewDescriptions == { "desc2" }
Contents == { <<"x">> }
TagInputs == { None, Some(<<"a", ",", "b">>) }

\* an optional id argument: absent, well-formed, or malformed
RefInputs == { None } \cup { Some(id) : id \in IdPool \cup { <<"a","b","c">> } }

MsgNotInitialized == "Project not initialized. Run 'tsk init' first."


\* the two processes of SpecRace, and a process that has not begun an operation:
\* status, dep, newid and attempt hold what the process has read, drawn and counted so
\* far, res what its operation returned
Procs == { 1, 2 }

IdleProc ==
    [op |-> "idle", pc |-> "idle", id |-> <<>>, parent |-> None, depend |-> None,
     status |-> 0, dep |-> None, newid |-> <<>>, attempt |-> 0, res |-> Ok(<<>>)]

\* what the last command was asked; version is the schema_version migrate_db read when
\* the command opened the store, ran tells whether the command reached its store
\* operation and res is what it returned
Cmd(op) ==
    [op |-> op, id |-> None, parent |-> None, depend |-> None,
     title |-> "", description |-> "", inprogress |-> FALSE, all |-> FALSE,
     version |-> None, ran |-> FALSE, res |-> Ok(<<>>)]

\* the store the connection leaves behind
Commit(db) ==
    /\ tasks' = db.tasks
    /\ memories' = db.memories
    /\ meta' = db.meta
    /\ schema' = db.schema

\* main: find_db_path, Connection::open, migrate_db, then the command
\* Run(db) is the command's store function applied to the migrated store
Dispatch(cmd, out) ==
    IF ~dbExists
    THEN /\ last' = [cmd EXCEPT !.res = Bail(<<MsgNotInitialized>>)]
         /\ UNCHANGED <<dbExists, tasks, memories, meta, schema, request, reply, opens, serverUp,
                       procs>>
    ELSE /\ last' = [cmd EXCEPT !.version = Some(SchemaVersion(meta)),
                                !.ran = TRUE, !.res = out.res]
         /\ Commit(out.db)
         /\ UNCHANGED <<dbExists, request, reply, opens, serverUp, procs>>

\* cmd_init: creates .tsk/ and the database unless .tsk/ is there
CliInit ==
    /\ IF ~dbExists
       THEN /\ dbExists' = TRUE
            /\ Commit(init_db(EmptyDb))
       ELSE UNCHANGED <<dbExists, tasks, memories, meta, schema>>
    /\ last' = Cmd("init")
    /\ UNCHANGED <<clock, request, reply, opens, serverUp, procs>>

\* CURRENT_TIMESTAMP at the command's INSERT, when up to `advance` seconds may
\* have passed since the last one
Now(advance) == { t \in clock..(clock + advance) : t <= MaxClock }

CliCreate(advance) ==
    \E title \in Titles, description \in Descriptions,
       parent \in RefInputs, depend \in RefInputs, draws \in DrawSeqs, now \in Now(advance) :
        /\ Len(tasks) + Len(memories) < MaxRows
        /\ Dispatch([Cmd("create") EXCEPT !.title = title, !.description = description,
                                          !.parent = parent, !.depend = depend],
                    create_task(migrate_db(Db), title, description, parent, depend, draws, now))
        /\ clock' = now

CliList ==
    \E inprogress \in BOOLEAN, all \in BOOLEAN, parent \in RefInputs :
        \E out \in list_tasks(migrate_db(Db), inprogress, all, parent) :
            /\ Dispatch([Cmd("list") EXCEPT !.inprogress = inprogress, !.all = all,
                                            !.parent = parent], out)
            /\ UNCHANGED clock

CliShow ==
    \E id \in InputIds :
        /\ Dispatch([Cmd("show") EXCEPT !.id = Some(id)], get_task(migrate_db(Db), id))
        /\ UNCHANGED clock

CliUpdate ==
    \E id \in InputIds, description \in NewDescriptions :
        /\ Dispatch([Cmd("update") EXCEPT !.id = Some(id), !.description = description],
                    update_task(migrate_db(Db), id, description))
        /\ UNCHANGED clock

CliStart ==
    \E id \in InputIds :
        /\ Dispatch([Cmd("start") EXCEPT !.id = Some(id)], start_task(migrate_db(Db), id))
        /\ UNCHANGED clock

CliDone ==
    \E id \in InputIds :
        /\ Dispatch([Cmd("done") EXCEPT !.id = Some(id)], complete_task(migrate_db(Db), id))
        /\ UNCHANGED clock

CliRemove ==
    \E id \in InputIds :
        /\ Dispatch([Cmd("remove") EXCEPT !.id = Some(id)], remove_task(migrate_db(Db), id))
        /\ UNCHANGED clock

CliMemoryCreate(advance) ==
    \E content \in Contents, tags \in TagInputs, draws \in DrawSeqs, now \in Now(advance) :
        /\ Len(tasks) + Len(memories) < MaxRows
        /\ Dispatch(Cmd("memory_create"),
                    create_memory(migrate_db(Db), content, tags, draws, now))
        /\ clock' = now

CliMemoryShow ==
    \E id \in InputIds :
        /\ Dispatch([Cmd("memory_show") EXCEPT !.id = Some(id)],
                    get_memory(migrate_db(Db), id))
        /\ UNCHANGED clock

CliMemoryRm ==
    \E id \in InputIds :
        /\ Dispatch([Cmd("memory_remove") EXCEPT !.id = Some(id)],
                    remove_memory(migrate_db(Db), id))
        /\ UNCHANGED clock

\* tsk ids: prints nothing and succeeds without a store; otherwise opens the store,
\* which runs migrate_db, and prints the ids of the tasks that are not done
CliIds ==
    /\ IF ~dbExists
       THEN /\ last' = Cmd("ids")
            /\ UNCHANGED <<tasks, memories, meta, schema>>
       ELSE /\ last' = [Cmd("ids") EXCEPT !.version = Some(SchemaVersion(meta)), !.ran = TRUE,
                                          !.res = get_task_ids(migrate_db(Db)).res]
            /\ Commit(get_task_ids(migrate_db(Db)).db)
    /\ UNCHANGED <<dbExists, clock, request, reply, opens, serverUp, procs>>

----------------------------------------------------------------------------
(* JSON values: src/mcp.rs serde_json::Value, as far as the server looks at them *)

Null == <<"null", <<>>>>
JsonString(s) == <<"string", s>>
JsonBool(b) == <<"bool", b>>
JsonNumber(n) == <<"number", n>>

as_str(v) == IF v[1] = "string" THEN Some(v[2]) ELSE None
as_bool(v) == IF v[1] = "bool" THEN Some(v[2]) ELSE None
as_u64(v) == IF v[1] = "number" /\ v[2] >= 0 THEN Some(v[2]) ELSE None
unwrap_or(o, default) == IF IsSome(o) THEN Unwrap(o) ELSE default

\* serde_json::to_string_pretty(value): the JSON text of value
to_string_pretty(value) == <<"to_string_pretty", value>>

\* the members the handlers index in "arguments"; args["key"] of an absent key is Null
NoArgs ==
    [title |-> Null, description |-> Null, parent |-> Null, depend |-> Null,
     id |-> Null, inprogress |-> Null, all |-> Null, content |-> Null,
     tags |-> Null, tag |-> Null, last |-> Null, query |-> Null]

----------------------------------------------------------------------------
(* The protocol server: src/mcp.rs *)

PROTOCOL_VERSION == "2024-11-05"
SERVER_NAME == "tsk"
SERVER_VERSION == "CARGO_PKG_VERSION"
NOT_INITIALIZED_ERROR ==
    "Project not initialized. Run 'tsk init' in terminal or use the 'init' tool."
MsgMissingId == "Missing required parameter: id"
MsgMissingQuery == "Missing required parameter: query"
MsgUnknownTool == "Unknown tool: {}"
MsgMethodNotFound == "Method not found: {}"
MsgParseError == "Parse error: {}"
MethodNotFoundCode == -32601
ParseErrorCode == -32700

\* JsonRpcResponse::success losing the id
JsonRpcResponseSuccess_NoId(id, result) ==
    [jsonrpc |-> "2.0", id |-> None, result |-> Some(result), error |-> None]

\* JsonRpcResponse::success, JsonRpcResponse::error
JsonRpcResponseSuccess(id, result) ==
    [jsonrpc |-> "2.0", id |-> id, result |-> Some(result), error |-> None]
JsonRpcResponseError(id, code, message) ==
    [jsonrpc |-> "2.0", id |-> id, result |-> None,
     error |-> Some([code |-> code, message |-> message, data |-> None])]

\* ToolResult::text, ToolResult::json, ToolResult::error
ToolResultText(text) ==
    [content |-> << [type |-> "text", text |-> text] >>, isError |-> None]
ToolResultJson(value) == ToolResultText(to_string_pretty(value))
ToolResultError(message) ==
    [content |-> << [type |-> "text", text |-> message] >>, isError |-> Some(TRUE)]

\* the names of get_tools(), in its order
get_tools ==
    << "init", "create", "list", "show", "update", "start", "done", "remove",
       "memory_create", "memory_list", "memory_show", "memory_search", "memory_remove" >>

\* a handler's match on its store call, with the error arm returning a plain text
MatchResult_ErrorAsText(out, call, value) ==
    [result |-> IF out.res.ok THEN ToolResultJson(value)
                ELSE ToolResultText(to_string(out.res.err)),
     db |-> out.db,
     call |-> [call EXCEPT !.ran = TRUE, !.res = out.res]]

\* the match every handler ends with: Ok(..) => ToolResult::json(value),
\* Err(e) => ToolResult::error(e.to_string()); call records the store call
MatchResult(out, call, value) ==
    [result |-> IF out.res.ok THEN ToolResultJson(value)
                ELSE ToolResultError(to_string(out.res.err)),
     db |-> out.db,
     call |-> [call EXCEPT !.ran = TRUE, !.res = out.res]]

\* None => return ToolResult::error("Missing required parameter: ..")
MissingParameter(db, call, message) ==
    [result |-> ToolResultError(<<message>>), db |-> db, call |-> call]

handle_create(db, args, draws, now) ==
    LET title == unwrap_or(as_str(args.title), "")
        description == unwrap_or(as_str(args.description), "")
        parent == as_str(args.parent)
        depend == as_str(args.depend)
        out == create_task(db, title, description, parent, depend, draws, now)
    IN  { MatchResult(out, [Cmd("create") EXCEPT !.title = title, !.description = description,
                                                 !.parent = parent, !.depend = depend],
                      [id |-> out.res.val]) }

handle_list(db, args) ==
    LET inprogress == unwrap_or(as_bool(args.inprogress), FALSE)
        all == unwrap_or(as_bool(args.all), FALSE)
        parent == as_str(args.parent)
    IN  { MatchResult(out, [Cmd("list") EXCEPT !.inprogress = inprogress, !.all = all,
                                               !.parent = parent],
                      out.res.val) : out \in list_tasks(db, inprogress, all, parent) }

handle_show(db, args) ==
    LET id == as_str(args.id)
        out == get_task(db, Unwrap(id))
    IN  IF ~IsSome(id) THEN { MissingParameter(db, Cmd("show"), MsgMissingId) }
        ELSE { MatchResult(out, [Cmd("show") EXCEPT !.id = id], out.res.val) }

handle_update(db, args) ==
    LET id == as_str(args.id)
        description == unwrap_or(as_str(args.description), "")
        out == update_task(db, Unwrap(id), description)
    IN  IF ~IsSome(id) THEN { MissingParameter(db, Cmd("update"), MsgMissingId) }
        ELSE { MatchResult(out, [Cmd("update") EXCEPT !.id = id, !.description = description],
                           [success |-> TRUE, id |-> Unwrap(id)]) }

\* handle_start taking a missing id as the empty string, the way handle_create takes
\* its title
handle_start_IdOrDefault(db, args) ==
    LET id == Some(unwrap_or(as_str(args.id), <<>>))
        out == start_task(db, Unwrap(id))
    IN  { MatchResult(out, [Cmd("start") EXCEPT !.id = id],
                      [success |-> TRUE, id |-> Unwrap(id)]) }

handle_start(db, args) ==
    LET id == as_str(args.id)
        out == start_task(db, Unwrap(id))
    IN  IF ~IsSome(id) THEN { MissingParameter(db, Cmd("start"), MsgMissingId) }
        ELSE { MatchResult(out, [Cmd("start") EXCEPT !.id = id],
                           [success |-> TRUE, id |-> Unwrap(id)]) }

handle_done(db, args) ==
    LET id == as_str(args.id)
        out == complete_task(db, Unwrap(id))
    IN  IF ~IsSome(id) THEN { MissingParameter(db, Cmd("done"), MsgMissingId) }
        ELSE { MatchResult(out, [Cmd("done") EXCEPT !.id = id],
                           [success |-> TRUE, id |-> Unwrap(id)]) }

handle_remove(db, args) ==
    LET id == as_str(args.id)
        out == remove_task(db, Unwrap(id))
    IN  IF ~IsSome(id) THEN { MissingParameter(db, Cmd("remove"), MsgMissingId) }
        ELSE { MatchResult(out, [Cmd("remove") EXCEPT !.id = id],
                           [success |-> TRUE, id |-> Unwrap(id)]) }

handle_memory_create(db, args, draws, now) ==
    LET content == unwrap_or(as_str(args.content), <<>>)
        tags == as_str(args.tags)
        out == create_memory(db, content, tags, draws, now)
    IN  { MatchResult(out, Cmd("memory_create"), [id |-> out.res.val]) }

handle_memory_list(db, args) ==
    LET tag == as_str(args.tag)
        last_n == as_u64(args.last)
    IN  { MatchResult(out, Cmd("memory_list"), out.res.val) :
            out \in list_memories(db, tag, last_n) }

handle_memory_show(db, args) ==
    LET id == as_str(args.id)
        out == get_memory(db, Unwrap(id))
    IN  IF ~IsSome(id) THEN { MissingParameter(db, Cmd("memory_show"), MsgMissingId) }
        ELSE { MatchResult(out, [Cmd("memory_show") EXCEPT !.id = id], out.res.val) }

handle_memory_search(db, args) ==
    LET query == as_str(args.query)
    IN  IF ~IsSome(query)
        THEN { MissingParameter(db, Cmd("memory_search"), MsgMissingQuery) }
        ELSE { MatchResult(out, Cmd("memory_search"), out.res.val) :
                 out \in search_memories(db, Unwrap(query)) }

handle_memory_remove(db, args) ==
    LET id == as_str(args.id)
        out == remove_memory(db, Unwrap(id))
    IN  IF ~IsSome(id) THEN { MissingParameter(db, Cmd("memory_remove"), MsgMissingId) }
        ELSE { MatchResult(out, [Cmd("memory_remove") EXCEPT !.id = id],
                           [success |-> TRUE, id |-> Unwrap(id)]) }

\* handle_tool_with_db without an arm for memory_search
handle_tool_with_db_NoSearch(db, name, args, draws, now) ==
    CASE name = "create" -> handle_create(db, args, draws, now)
      [] name = "list" -> handle_list(db, args)
      [] name = "show" -> handle_show(db, args)
      [] name = "update" -> handle_update(db, args)
      [] name = "start" -> handle_start(db, args)
      [] name = "done" -> handle_done(db, args)
      [] name = "remove" -> handle_remove(db, args)
      [] name = "memory_create" -> handle_memory_create(db, args, draws, now)
      [] name = "memory_list" -> handle_memory_list(db, args)
      [] name = "memory_show" -> handle_memory_show(db, args)
      [] name = "memory_remove" -> handle_memory_remove(db, args)
      [] OTHER -> { [result |-> ToolResultError(<<MsgUnknownTool, name>>), db |-> db,
                     call |-> Cmd(name)] }

handle_tool_with_db(db, name, args, draws, now) ==
    CASE name = "create" -> handle_create(db, args, draws, now)
      [] name = "list" -> handle_list(db, args)
      [] name = "show" -> handle_show(db, args)
      [] name = "update" -> handle_update(db, args)
      [] name = "start" -> handle_start(db, args)
      [] name = "done" -> handle_done(db, args)
      [] name = "remove" -> handle_remove(db, args)
      [] name = "memory_create" -> handle_memory_create(db, args, draws, now)
      [] name = "memory_list" -> handle_memory_list(db, args)
      [] name = "memory_show" -> handle_memory_show(db, args)
      [] name = "memory_search" -> handle_memory_search(db, args)
      [] name = "memory_remove" -> handle_memory_remove(db, args)
      [] OTHER -> { [result |-> ToolResultError(<<MsgUnknownTool, name>>), db |-> db,
                     call |-> Cmd(name)] }

\* init_project creating the database file anew
init_project_Recreate(exists, db) ==
    [res |-> Ok("./.tsk/tsk.sqlite"), db |-> init_db(EmptyDb)]

\* init_project: creates .tsk/ if missing, opens (and so creates) the database, init_db
init_project(exists, db) ==
    [res |-> Ok("./.tsk/tsk.sqlite"), db |-> init_db(IF exists THEN db ELSE EmptyDb)]

handle_init(exists, db) ==
    LET out == init_project(exists, db)
    IN  [result |-> IF out.res.ok
                    THEN ToolResultJson([success |-> TRUE, path |-> out.res.val])
                    ELSE ToolResultError(to_string(out.res.err)),
         db |-> out.db, exists |-> TRUE, opened |-> FALSE, call |-> Cmd("init")]

\* open_db creating the store it does not find
open_db_CreatesStore(exists, db) ==
    Some(migrate_db(IF exists THEN db ELSE init_db(EmptyDb)))

\* open_db: find_db_path, Connection::open, migrate_db
open_db(exists, db) == IF exists THEN Some(migrate_db(db)) ELSE None

\* exists: .tsk/tsk.sqlite is there; the outcomes carry the store the call leaves and
\* opened, whether open_db opened a connection (and ran migrate_db) for this call
handle_tool_call(exists, db, name, args, draws, now) ==
    IF name = "init" THEN { handle_init(exists, db) }
    ELSE LET conn == open_db(exists, db)
         IN  IF IsSome(conn)
             THEN { [result |-> o.result, db |-> o.db, exists |-> exists, opened |-> TRUE,
                     call |-> [o.call EXCEPT !.version = Some(SchemaVersion(db.meta))]] :
                      o \in handle_tool_with_db(Unwrap(conn), name, args, draws, now) }
             ELSE { [result |-> ToolResultError(<<NOT_INITIALIZED_ERROR>>), db |-> db,
                     exists |-> exists, opened |-> FALSE, call |-> Cmd(name)] }

InitializeResult ==
    [protocolVersion |-> PROTOCOL_VERSION,
     capabilities |-> [tools |-> [listChanged |-> FALSE]],
     serverInfo |-> [name |-> SERVER_NAME, version |-> SERVER_VERSION]]

ToolsListResult == [tools |-> [i \in DOMAIN get_tools |-> [name |-> get_tools[i]]]]

\* the outcome of a request that touches no store
NoStore(exists, db, response) ==
    [response |-> response, db |-> db, exists |-> exists, opened |-> FALSE,
     call |-> Cmd("none")]

\* handle_request opening the store (open_db) before it lists the tools
handle_request_ListOpensStore(req, exists, db, draws, now) ==
    CASE req.method = "initialize" ->
            { NoStore(exists, db, Some(JsonRpcResponseSuccess(req.id, InitializeResult))) }
      [] req.method = "notifications/initialized" ->
            { NoStore(exists, db, None) }
      [] req.method = "tools/list" ->
            { [response |-> Some(JsonRpcResponseSuccess(req.id, ToolsListResult)),
               db |-> IF exists THEN migrate_db(db) ELSE db,
               exists |-> exists, opened |-> exists, call |-> Cmd("none")] }
      [] req.method = "tools/call" ->
            LET name == unwrap_or(as_str(req.name), "")
            IN  { [response |-> Some(JsonRpcResponseSuccess(req.id, o.result)),
                   db |-> o.db, exists |-> o.exists, opened |-> o.opened, call |-> o.call] :
                    o \in handle_tool_call(exists, db, name, req.arguments, draws, now) }
      [] OTHER ->
            { NoStore(exists, db,
                      Some(JsonRpcResponseError(req.id, MethodNotFoundCode,
                                                <<MsgMethodNotFound, req.method>>))) }

\* the set of outcomes: the response, if any, and the store the request leaves
handle_request(req, exists, db, draws, now) ==
    CASE req.method = "initialize" ->
            { NoStore(exists, db, Some(JsonRpcResponseSuccess(req.id, InitializeResult))) }
      [] req.method = "notifications/initialized" ->
            { NoStore(exists, db, None) }
      [] req.method = "tools/list" ->
            { NoStore(exists, db, Some(JsonRpcResponseSuccess(req.id, ToolsListResult))) }
      [] req.method = "tools/call" ->
            LET name == unwrap_or(as_str(req.name), "")
            IN  { [response |-> Some(JsonRpcResponseSuccess(req.id, o.result)),
                   db |-> o.db, exists |-> o.exists, opened |-> o.opened, call |-> o.call] :
                    o \in handle_tool_call(exists, db, name, req.arguments, draws, now) }
      [] OTHER ->
            { NoStore(exists, db,
                      Some(JsonRpcResponseError(req.id, MethodNotFoundCode,
                                                <<MsgMethodNotFound, req.method>>))) }

\* a line of stdin: empty, not a JSON-RPC request, or a request with its id, method,
\* params["name"] and params["arguments"]
Line(kind, id, method, name, arguments) ==
    [kind |-> kind, id |-> id, method |-> method, name |-> name, arguments |-> arguments]

NoLine == Line("none", None, "", Null, NoArgs)
EmptyLine == Line("empty", None, "", Null, NoArgs)
GarbageLine == Line("garbage", None, "", Null, NoArgs)
\* a line that lines() yields as Err: its bytes are not UTF-8
UnreadableLine == Line("unreadable", None, "", Null, NoArgs)
\* lines() yields nothing more
EndOfInput == Line("eof", None, "", Null, NoArgs)
Request(id, method, name, arguments) == Line("request", id, method, name, arguments)

\* one turn of run_server's loop on a line
run_server(line, exists, db, draws, now) ==
    IF line.kind \in { "eof", "unreadable", "empty" } THEN { NoStore(exists, db, None) }
    ELSE IF line.kind = "garbage"
    THEN { NoStore(exists, db,
                   Some(JsonRpcResponseError(None, ParseErrorCode, <<MsgParseError, "e">>))) }
    ELSE handle_request(line, exists, db, draws, now)

\* the rng is drawn from by generate_id alone, which the two create tools reach
DrawsFor(line) ==
    IF line.method = "tools/call" /\ line.name \in { JsonString("create"), JsonString("memory_create") }
    THEN DrawSeqs
    ELSE { CHOOSE draws \in DrawSeqs : TRUE }

\* the server reads the line and handles it to the end; now is CURRENT_TIMESTAMP;
\* the loop ends at the end of input and, by `line?`, at a line it cannot read
ServerLine(line, now) ==
    \E draws \in DrawsFor(line) :
        \E out \in run_server(line, dbExists, Db, draws, now) :
            /\ serverUp
            /\ serverUp' = (line.kind \notin { "eof", "unreadable" })
            /\ request' = line
            /\ reply' = out.response
            /\ last' = out.call
            /\ dbExists' = out.exists
            /\ IF out.exists THEN Commit(out.db) ELSE UNCHANGED <<tasks, memories, meta, schema>>
            /\ opens' = IF out.opened /\ opens < MaxOpens THEN opens + 1 ELSE opens
            /\ UNCHANGED procs

\* the client's inputs
RequestIds == { None, Some(JsonNumber(1)) }
CallIds == { Some(JsonNumber(1)) }
IdArgs ==
    { Null, JsonNumber(1) } \cup { JsonString(id) : id \in IdPool \cup { <<"a","b","c">> } }
RefArgs == { Null } \cup { JsonString(id) : id \in IdPool \cup { <<"a","b","c">> } }
TitleArgs == { JsonString("A") }
DescriptionArgs == { JsonString("desc") }
NewDescriptionArgs == { JsonString("desc2") }
BoolArgs == { Null, JsonBool(TRUE) }
ContentArgs == { JsonString(<<"x">>) }
TagsArgs == { Null, JsonString(<<"a", ",", "b">>) }
TagArgs == { Null, JsonString(<<"A">>) }
LastArgs == { Null, JsonNumber(1) }
QueryArgs == { Null, JsonString(<<"X">>), JsonString(<<"_">>), JsonString(<<"y">>) }
ToolNames == { get_tools[i] : i \in DOMAIN get_tools } \cup { "bogus" }

ArgsFor(name) ==
    CASE name = "create" ->
            { [NoArgs EXCEPT !.title = t, !.description = d, !.parent = p, !.depend = q] :
                t \in TitleArgs, d \in DescriptionArgs, p \in RefArgs, q \in RefArgs }
      [] name = "list" ->
            { [NoArgs EXCEPT !.inprogress = i, !.all = a, !.parent = p] :
                i \in BoolArgs, a \in BoolArgs, p \in RefArgs }
      [] name = "update" ->
            { [NoArgs EXCEPT !.id = id, !.description = d] :
                id \in IdArgs, d \in NewDescriptionArgs }
      [] name \in { "show", "start", "done", "remove", "memory_show", "memory_remove" } ->
            { [NoArgs EXCEPT !.id = id] : id \in IdArgs }
      [] name = "memory_create" ->
            { [NoArgs EXCEPT !.content = c, !.tags = t] : c \in ContentArgs, t \in TagsArgs }
      [] name = "memory_list" ->
            { [NoArgs EXCEPT !.tag = t, !.last = n] : t \in TagArgs, n \in LastArgs }
      [] name = "memory_search" ->
            { [NoArgs EXCEPT !.query = q] : q \in QueryArgs }
      [] OTHER -> { NoArgs }

McpEmptyLine(advance) ==
    \E now \in Now(advance) :
        /\ ServerLine(EmptyLine, now)
        /\ clock' = now

McpEndOfInput(advance) ==
    \E now \in Now(advance) :
        /\ ServerLine(EndOfInput, now)
        /\ clock' = now

McpUnreadableLine(advance) ==
    \E now \in Now(advance) :
        /\ ServerLine(UnreadableLine, now)
        /\ clock' = now

McpParseError(advance) ==
    \E now \in Now(advance) :
        /\ ServerLine(GarbageLine, now)
        /\ clock' = now

McpInitialize(advance) ==
    \E id \in RequestIds, now \in Now(advance) :
        /\ ServerLine(Request(id, "initialize", Null, NoArgs), now)
        /\ clock' = now

McpInitialized(advance) ==
    \E id \in RequestIds, now \in Now(advance) :
        /\ ServerLine(Request(id, "notifications/initialized", Null, NoArgs), now)
        /\ clock' = now

McpToolsList(advance) ==
    \E id \in RequestIds, now \in Now(advance) :
        /\ ServerLine(Request(id, "tools/list", Null, NoArgs), now)
        /\ clock' = now

McpUnknownMethod(advance) ==
    \E id \in RequestIds, now \in Now(advance) :
        /\ ServerLine(Request(id, "resources/list", Null, NoArgs), now)
        /\ clock' = now

\* a tools/call without a name
McpToolsCallNoName(advance) ==
    \E id \in RequestIds, now \in Now(advance) :
        /\ ServerLine(Request(id, "tools/call", Null, NoArgs), now)
        /\ clock' = now

\* a tools/call with a name and the arguments a client may send
McpToolsCall(advance) ==
    \E id \in CallIds, name \in ToolNames, now \in Now(advance) :
        \E arguments \in ArgsFor(name) :
            /\ name \in { "create", "memory_create" } => Len(tasks) + Len(memories) < MaxRows
            /\ ServerLine(Request(id, "tools/call", JsonString(name), arguments), now)
            /\ clock' = now

----------------------------------------------------------------------------
(* Spec: single-writer command-line use of a project that starts without a store; *)
(* every command runs within the same second                                     *)

Init ==
    /\ dbExists = FALSE
    /\ tasks = <<>>
    /\ memories = <<>>
    /\ meta = {}
    /\ schema = {}
    /\ clock = 0
    /\ last = Cmd("none")
    /\ request = NoLine
    /\ reply = None
    /\ opens = 0
    /\ serverUp = TRUE
    /\ procs = [p \in Procs |-> IdleProc]

Next ==
    \/ CliInit
    \/ CliCreate(0)
    \/ CliList
    \/ CliShow
    \/ CliUpdate
    \/ CliStart
    \/ CliDone
    \/ CliRemove
    \/ CliMemoryCreate(0)
    \/ CliMemoryShow
    \/ CliMemoryRm

Spec == Init /\ [][Next]_vars

\* SpecMcp: one protocol server is the only writer of a project that starts without a
\* store; every line is handled within the same second
NextMcp ==
    \/ McpEmptyLine(0)
    \/ McpEndOfInput(0)
    \/ McpUnreadableLine(0)
    \/ McpParseError(0)
    \/ McpInitialize(0)
    \/ McpInitialized(0)
    \/ McpToolsList(0)
    \/ McpUnknownMethod(0)
    \/ McpToolsCallNoName(0)
    \/ McpToolsCall(0)

SpecMcp == Init /\ [][NextMcp]_vars

\* SpecMigrate: command-line use of a project whose store an earlier version of the
\* program left behind: without schema_version (status 1 then meant done, and there
\* were no parent_id and depend_id columns), at version 1 (no memories table) or at
\* version 2
MaxLegacyRows == 2

LegacyId(k) == CandidateOf([j \in 1..IdLen |-> ((k - 1) * 35) % 36])

LegacyTask(k, done) ==
    [id |-> LegacyId(k), title |-> "A", description |-> "desc", done |-> done,
     parent_id |-> None, depend_id |-> None, created_at |-> 0]

LegacyStatusCodes(version) == IF version = 0 THEN {0, 1} ELSE {0, 1, 2}

LegacyTasks(version) ==
    UNION { { [k \in 1..n |-> LegacyTask(k, done[k])] : done \in [1..n -> LegacyStatusCodes(version)] } :
              n \in 0..MaxLegacyRows }

LegacyMemories(version) ==
    IF version < 2 THEN { <<>> }
    ELSE { <<>>, << [id |-> LegacyId(1), content |-> <<"x">>, tags |-> None, created_at |-> 0] >> }

LegacyMeta(version) ==
    CASE version = 0 -> {}
      [] version = 1 -> { <<"schema_version", "1">> }
      [] version = 2 -> { <<"schema_version", "2">> }

LegacySchema(version) ==
    CASE version = 0 -> { "tasks" }
      [] version = 1 -> { "tasks", "tasks.parent_id", "tasks.depend_id", "meta" }
      [] version = 2 -> { "tasks", "tasks.parent_id", "tasks.depend_id", "meta", "memories" }

InitMigrate ==
    /\ dbExists = TRUE
    /\ \E version \in {0, 1, 2} :
          /\ tasks \in LegacyTasks(version)
          /\ memories \in LegacyMemories(version)
          /\ meta = LegacyMeta(version)
          /\ schema = LegacySchema(version)
    /\ clock = 0
    /\ last = Cmd("none")
    /\ request = NoLine
    /\ reply = None
    /\ opens = 0
    /\ serverUp = FALSE
    /\ procs = [p \in Procs |-> IdleProc]

NextMigrate ==
    \/ CliIds
    \/ CliStart
    \/ CliDone

SpecMigrate == InitMigrate /\ [][NextMigrate]_vars

\* SpecTitle: tasks are created from the command line and through the server's create
\* tool with the titles each entry point lets through: clap takes any string for the
\* positional title, the empty one included, and the tool takes a call without a title
TitleInputs == { "", "A" }
OptionalTitleArgs == { Null, JsonString("A") }

CliCreateTitled ==
    \E title \in TitleInputs, draws \in DrawSeqs :
        /\ Len(tasks) + Len(memories) < MaxRows
        /\ Dispatch([Cmd("create") EXCEPT !.title = title, !.description = "desc"],
                    create_task(migrate_db(Db), title, "desc", None, None, draws, clock))
        /\ UNCHANGED clock

McpCreateTitled ==
    \E title \in OptionalTitleArgs :
        /\ Len(tasks) + Len(memories) < MaxRows
        /\ ServerLine(Request(Some(JsonNumber(1)), "tools/call", JsonString("create"),
                              [NoArgs EXCEPT !.title = title,
                                             !.description = JsonString("desc")]), clock)
        /\ UNCHANGED clock

NextTitle ==
    \/ CliInit
    \/ CliCreateTitled
    \/ McpCreateTitled
    \/ CliRemove

SpecTitle == Init /\ [][NextTitle]_vars

\* SpecTree: command-line use of the tasks table alone, with up to MaxTreeRows tasks
\* and three ids, so that a task can have a child and a grandchild or two children;
\* no task is given a dependency; every command runs within the same second
MaxTreeRows == 3

\* the rng's index for every character of a candidate: "aaaaaa", "bbbbbb", "999999"
TreeIndices == << 0, 1, 35 >>

\* the candidates of one call: the rng goes round the three candidates, starting at
\* any of them, so an allocation may return any id that is free
TreeDraws ==
    { [a \in 1..MaxAttempts |->
          CandidateOf([k \in 1..IdLen |-> TreeIndices[((a + s) % 3) + 1]])] : s \in 0..2 }

TreeIds == { CandidateOf([k \in 1..IdLen |-> TreeIndices[i]]) : i \in 1..3 }
TreeRefs == { None } \cup { Some(id) : id \in TreeIds }

\* depends: the dependencies the callers of this specification pass
TreeCreate(depends) ==
    \E parent \in TreeRefs, depend \in depends, draws \in TreeDraws :
        /\ Len(tasks) < MaxTreeRows
        /\ Dispatch([Cmd("create") EXCEPT !.title = "A", !.description = "desc",
                                          !.parent = parent, !.depend = depend],
                    create_task(migrate_db(Db), "A", "desc", parent, depend, draws, clock))
        /\ UNCHANGED clock

TreeList ==
    \E inprogress \in BOOLEAN, all \in BOOLEAN, parent \in TreeRefs :
        \E out \in list_tasks(migrate_db(Db), inprogress, all, parent) :
            /\ Dispatch([Cmd("list") EXCEPT !.inprogress = inprogress, !.all = all,
                                            !.parent = parent], out)
            /\ UNCHANGED clock

TreeStart ==
    \E id \in TreeIds :
        /\ Dispatch([Cmd("start") EXCEPT !.id = Some(id)], start_task(migrate_db(Db), id))
        /\ UNCHANGED clock

TreeDone ==
    \E id \in TreeIds :
        /\ Dispatch([Cmd("done") EXCEPT !.id = Some(id)], complete_task(migrate_db(Db), id))
        /\ UNCHANGED clock

TreeRemove ==
    \E id \in TreeIds :
        /\ Dispatch([Cmd("remove") EXCEPT !.id = Some(id)], remove_task(migrate_db(Db), id))
        /\ UNCHANGED clock

NextTree ==
    \/ CliInit
    \/ TreeCreate({ None })
    \/ TreeList
    \/ TreeStart
    \/ TreeDone
    \/ TreeRemove

SpecTree == Init /\ [][NextTree]_vars

\* SpecDeps: the same tasks with dependencies as well as parents, created, started,
\* completed and removed
NextDeps ==
    \/ CliInit
    \/ TreeCreate(TreeRefs)
    \/ TreeStart
    \/ TreeDone
    \/ TreeRemove

SpecDeps == Init /\ [][NextDeps]_vars

\* SpecRace: two processes (two command-line invocations, or one and the server) each
\* run one task operation on the same store. No operation opens a transaction, so
\* every SQL statement commits on its own and is one step here; the statements of the
\* two processes interleave in any order.
\* the tasks the processes name: "aaaaaa", which the rng may also draw, and "bbbbbb"
RaceA == CandidateOf([k \in 1..IdLen |-> 0])
RaceB == CandidateOf([k \in 1..IdLen |-> 1])
RaceIds == { RaceA, RaceB }

RaceTask(id, depend) ==
    [id |-> id, title |-> "A", description |-> "desc", done |-> 0,
     parent_id |-> None, depend_id |-> depend, created_at |-> 0]

\* the stores the processes start from: empty, one pending task, and a pending task
\* with a pending task that depends on it
RaceStores ==
    { <<>>,
      << RaceTask(RaceA, None) >>,
      << RaceTask(RaceA, None), RaceTask(RaceB, Some(RaceA)) >> }

RaceRefs == { None, Some(RaceA) }

InitRace ==
    /\ dbExists = TRUE
    /\ tasks \in RaceStores
    /\ memories = <<>>
    /\ meta = { <<"schema_version", "2">> }
    /\ schema = init_db(EmptyDb).schema
    /\ clock = 0
    /\ last = Cmd("none")
    /\ request = NoLine
    /\ reply = None
    /\ opens = 0
    /\ serverUp = FALSE
    /\ procs = [p \in Procs |-> IdleProc]

\* the process's next statement, and the end of its operation, where its locals
\* (status, depend_id, the attempt counter) go out of scope
Goto(p, pc) == [procs[p] EXCEPT !.pc = pc]
Return(p, res) ==
    [procs[p] EXCEPT !.pc = "finished", !.res = res,
                     !.status = 0, !.dep = None, !.attempt = 0]

\* a process opens the store (open_db: migrate_db) and enters its operation
RaceBegin ==
    \E p \in Procs, op \in { "start", "done", "remove", "create" }, id \in RaceIds,
       parent \in RaceRefs, depend \in RaceRefs :
        /\ procs[p].pc = "idle"
        /\ op = "create" => id = RaceA
        /\ op # "create" => parent = None /\ depend = None
        /\ Commit(migrate_db(Db))
        /\ procs' = [procs EXCEPT ![p] =
              [IdleProc EXCEPT !.op = op, !.pc = IF op = "create" THEN "parent" ELSE "status",
                               !.id = IF op = "create" THEN <<>> ELSE id,
                               !.parent = parent, !.depend = depend]]
        /\ UNCHANGED <<dbExists, clock, last, request, reply, opens, serverUp>>

\* start_task, statement by statement
RaceStart ==
    \E p \in Procs :
    LET me == procs[p]
        status == RowOf(tasks, me.id).done
    IN  /\ me.op = "start"
        /\ \/ /\ me.pc = "status"
              /\ procs' = [procs EXCEPT ![p] =
                    IF ~validate_id(me.id).ok THEN Return(p, validate_id(me.id))
                    ELSE IF CountId(tasks, me.id) = 0
                         THEN Return(p, Bail(<<MsgTaskNotFound, me.id>>))
                    ELSE IF status # 0
                         THEN IF status = 1
                              THEN Return(p, Bail(<<MsgInProgress, me.id>>))
                              ELSE Return(p, Bail(<<MsgAlreadyDone, me.id>>))
                    ELSE [Goto(p, "update") EXCEPT !.status = status]]
              /\ UNCHANGED tasks
           \/ /\ me.pc = "update"
              /\ tasks' = UpdateRows(tasks, me.id, "done", 1)
              /\ procs' = [procs EXCEPT ![p] = Return(p, Ok(<<>>))]
        /\ UNCHANGED <<dbExists, memories, meta, schema, clock, last, request, reply, opens,
                       serverUp>>

\* complete_task, statement by statement
RaceDone ==
    \E p \in Procs :
    LET me == procs[p]
        status == RowOf(tasks, me.id).done
        depend_id == RowOf(tasks, me.id).depend_id
    IN  /\ me.op = "done"
        /\ \/ /\ me.pc = "status"
              /\ procs' = [procs EXCEPT ![p] =
                    IF ~validate_id(me.id).ok THEN Return(p, validate_id(me.id))
                    ELSE IF CountId(tasks, me.id) = 0
                         THEN Return(p, Bail(<<MsgTaskNotFound, me.id>>))
                    ELSE IF status = 2
                         THEN Return(p, Bail(<<MsgAlreadyDone, me.id>>))
                    ELSE [Goto(p, "depend") EXCEPT !.status = status]]
              /\ UNCHANGED tasks
           \/ /\ me.pc = "depend"
              /\ procs' = [procs EXCEPT ![p] =
                    IF CountId(tasks, me.id) = 0 THEN Return(p, Bail(<<MsgNoRows>>))
                    ELSE IF IsSome(depend_id)
                         THEN [Goto(p, "isdone") EXCEPT !.dep = depend_id]
                    ELSE Goto(p, "update")]
              /\ UNCHANGED tasks
           \/ /\ me.pc = "isdone"
              /\ procs' = [procs EXCEPT ![p] =
                    IF task_is_done(Db, Unwrap(me.dep)) = Some(FALSE)
                    THEN Return(p, Bail(<<MsgDependsNotDone, Unwrap(me.dep)>>))
                    ELSE Goto(p, "update")]
              /\ UNCHANGED tasks
           \/ /\ me.pc = "update"
              /\ tasks' = UpdateRows(tasks, me.id, "done", 2)
              /\ procs' = [procs EXCEPT ![p] = Return(p, Ok(<<>>))]
        /\ UNCHANGED <<dbExists, memories, meta, schema, clock, last, request, reply, opens,
                       serverUp>>

\* create_task, statement by statement: the two reference checks, generate_id's
\* attempts (one SELECT COUNT each, on a candidate the rng draws), then the INSERT
RaceCreate ==
    \E p \in Procs :
    LET me == procs[p]
        row == [id |-> me.newid, title |-> "A", description |-> "desc", done |-> 0,
                parent_id |-> me.parent, depend_id |-> me.depend, created_at |-> clock]
        ins == InsertRow(tasks, row)
    IN  /\ me.op = "create"
        /\ \/ /\ me.pc = "parent"
              /\ procs' = [procs EXCEPT ![p] =
                    IF ~CheckRef(Db, me.parent, MsgParentNotFound).ok
                    THEN Return(p, CheckRef(Db, me.parent, MsgParentNotFound))
                    ELSE Goto(p, "depend")]
              /\ UNCHANGED tasks
           \/ /\ me.pc = "depend"
              /\ procs' = [procs EXCEPT ![p] =
                    IF ~CheckRef(Db, me.depend, MsgDependNotFound).ok
                    THEN Return(p, CheckRef(Db, me.depend, MsgDependNotFound))
                    ELSE [Goto(p, "generate") EXCEPT !.attempt = 1]]
              /\ UNCHANGED tasks
           \/ /\ me.pc = "generate"
              /\ \E idx \in DrawPool :
                    procs' = [procs EXCEPT ![p] =
                        IF ~id_exists_in_table(tasks, CandidateOf(idx))
                        THEN [Goto(p, "insert") EXCEPT !.newid = CandidateOf(idx), !.attempt = 0]
                        ELSE IF me.attempt < MaxAttempts
                             THEN [me EXCEPT !.attempt = @ + 1]
                        ELSE Return(p, Bail(<<MsgExhausted>>))]
              /\ UNCHANGED tasks
           \/ /\ me.pc = "insert"
              /\ tasks' = IF ins.ok THEN ins.val ELSE tasks
              /\ procs' = [procs EXCEPT ![p] =
                    IF ins.ok THEN Return(p, Ok(me.newid)) ELSE Return(p, ins)]
        /\ UNCHANGED <<dbExists, memories, meta, schema, clock, last, request, reply, opens,
                       serverUp>>

\* remove_task, statement by statement
RaceRemove ==
    \E p \in Procs :
    LET me == procs[p]
        dependents == Cardinality({ i \in DOMAIN tasks :
                         tasks[i].depend_id = Some(me.id) /\ tasks[i].done < 2 })
        children == Cardinality({ i \in DOMAIN tasks : tasks[i].parent_id = Some(me.id) })
    IN  /\ me.op = "remove"
        /\ \/ /\ me.pc = "status"
              /\ procs' = [procs EXCEPT ![p] =
                    IF ~validate_id(me.id).ok THEN Return(p, validate_id(me.id))
                    ELSE IF ~task_exists(Db, me.id)
                         THEN Return(p, Bail(<<MsgTaskNotFound, me.id>>))
                    ELSE Goto(p, "dependents")]
              /\ UNCHANGED tasks
           \/ /\ me.pc = "dependents"
              /\ procs' = [procs EXCEPT ![p] =
                    IF dependents > 0
                    THEN Return(p, Bail(<<MsgActiveDependents, dependents, me.id>>))
                    ELSE Goto(p, "children")]
              /\ UNCHANGED tasks
           \/ /\ me.pc = "children"
              /\ procs' = [procs EXCEPT ![p] =
                    IF children > 0
                    THEN Return(p, Bail(<<MsgHasChildren, children, me.id>>))
                    ELSE Goto(p, "delete")]
              /\ UNCHANGED tasks
           \/ /\ me.pc = "delete"
              /\ tasks' = DeleteRows(tasks, me.id)
              /\ procs' = [procs EXCEPT ![p] = Return(p, Ok(<<>>))]
        /\ UNCHANGED <<dbExists, memories, meta, schema, clock, last, request, reply, opens,
                       serverUp>>

NextRace ==
    \/ RaceBegin
    \/ RaceStart
    \/ RaceDone
    \/ RaceCreate
    \/ RaceRemove

SpecRace == InitRace /\ [][NextRace]_vars

----------------------------------------------------------------------------
(* Properties *)

\* the order of the three statuses
StatusRank(status) ==
    CASE status = "pending" -> 0
      [] status = "in_progress" -> 1
      [] status = "done" -> 2

HasTask(table, id) == \E i \in DOMAIN table : table[i].id = id
StatusOf(table, id) == from_int(RowOf(table, id).done)
\* the format string of the message an error displays
ErrFormat(res) == to_string(res.err)[1]
StoreUnchanged == tasks' = tasks /\ memories' = memories /\ meta' = meta /\ schema' = schema

\* C1: in every step, a task that is in the table before and after the step has a
\* status that is equal or higher in the order pending < in_progress < done.
C1_StatusNeverMovesBack ==
    [][\A i \in DOMAIN tasks : \A j \in DOMAIN tasks' :
          tasks[i].id = tasks'[j].id =>
              StatusRank(from_int(tasks'[j].done)) >= StatusRank(from_int(tasks[i].done))]_vars

\* a task was started and then completed, next to a second task
C1_Witness ==
    /\ last.op = "done" /\ last.res.ok
    /\ Len(tasks) = 2
    /\ \E i \in DOMAIN tasks : tasks[i].id = Unwrap(last.id) /\ tasks[i].done = 2
    /\ \E i \in DOMAIN tasks : tasks[i].done = 1

\* C2: remove of an existing task T fails and leaves the store unchanged if some task
\* has parent_id = T.id or some task that is not done has depend_id = T.id; in every
\* other case it succeeds and T is no longer in the table.
C2_RemoveRule ==
    [][(last'.op = "remove" /\ HasTask(tasks, Unwrap(last'.id))) =>
          LET id == Unwrap(last'.id)
              blocked ==
                  \/ \E i \in DOMAIN tasks : tasks[i].parent_id = Some(id)
                  \/ \E i \in DOMAIN tasks :
                        tasks[i].depend_id = Some(id) /\ from_int(tasks[i].done) # "done"
          IN  IF blocked
              THEN ~last'.res.ok /\ StoreUnchanged
              ELSE last'.res.ok /\ ~HasTask(tasks', id)]_vars

\* a remove was refused because the task has a child
C2_Witness ==
    /\ last.op = "remove" /\ ~last.res.ok
    /\ ErrFormat(last.res) = MsgHasChildren
    /\ \E i \in DOMAIN tasks : tasks[i].parent_id = last.id

\* C3: complete(id) succeeds exactly when the task exists, is not done, and its
\* depend_id is absent, names no existing task, or names a done task; on success the
\* status is done, on failure the tasks are unchanged.
C3_CompleteRule ==
    [][last'.op = "done" =>
          LET id == Unwrap(last'.id)
              depend_id == RowOf(tasks, id).depend_id
              allowed ==
                  /\ HasTask(tasks, id)
                  /\ StatusOf(tasks, id) # "done"
                  /\ \/ depend_id = None
                     \/ ~HasTask(tasks, Unwrap(depend_id))
                     \/ StatusOf(tasks, Unwrap(depend_id)) = "done"
          IN  /\ last'.res.ok <=> allowed
              /\ last'.res.ok =>
                    /\ StatusOf(tasks', id) = "done"
                    /\ StatusOf(tasks, id) \in {"pending", "in_progress"}
              /\ ~last'.res.ok => tasks' = tasks]_vars

\* a complete was refused because the dependency is not done
C3_Witness ==
    /\ last.op = "done" /\ ~last.res.ok
    /\ ErrFormat(last.res) = MsgDependsNotDone
    /\ \E i \in DOMAIN tasks :
          /\ tasks[i].id = Unwrap(last.id)
          /\ HasTask(tasks, Unwrap(tasks[i].depend_id))
          /\ StatusOf(tasks, Unwrap(tasks[i].depend_id)) # "done"

\* C4: start(id) succeeds exactly when the task exists and is pending; on success the
\* status is in_progress; on an in_progress task it fails saying it is already in
\* progress, on a done task it fails with a different message saying it is already
\* done, and both failures leave the status unchanged.
C4_StartRule ==
    [][last'.op = "start" =>
          LET id == Unwrap(last'.id)
          IN  /\ last'.res.ok <=> (HasTask(tasks, id) /\ StatusOf(tasks, id) = "pending")
              /\ last'.res.ok => StatusOf(tasks', id) = "in_progress"
              /\ (HasTask(tasks, id) /\ StatusOf(tasks, id) = "in_progress") =>
                    /\ ErrFormat(last'.res) = MsgInProgress
                    /\ tasks' = tasks
              /\ (HasTask(tasks, id) /\ StatusOf(tasks, id) = "done") =>
                    /\ ErrFormat(last'.res) = MsgAlreadyDone
                    /\ ErrFormat(last'.res) # MsgInProgress
                    /\ tasks' = tasks]_vars

\* a start was refused on a done task
C4_Witness ==
    /\ last.op = "start" /\ ~last.res.ok
    /\ ErrFormat(last.res) = MsgAlreadyDone
    /\ HasTask(tasks, Unwrap(last.id))
    /\ StatusOf(tasks, Unwrap(last.id)) = "done"

\* C5: every parent_id names an existing task, and every task whose depend_id names a
\* missing task is done.
C5_References ==
    \A i \in DOMAIN tasks :
        /\ IsSome(tasks[i].parent_id) => HasTask(tasks, Unwrap(tasks[i].parent_id))
        /\ (IsSome(tasks[i].depend_id) /\ ~HasTask(tasks, Unwrap(tasks[i].depend_id)))
              => from_int(tasks[i].done) = "done"

\* a dependency was removed after its dependent was done: the reference dangles
C5_Witness ==
    /\ last.op = "remove" /\ last.res.ok
    /\ \E i \in DOMAIN tasks :
          /\ tasks[i].depend_id = last.id
          /\ ~HasTask(tasks, Unwrap(last.id))

\* a reference that is supplied and names no task of the table
NamesNoTask(table, ref) == IsSome(ref) /\ ~HasTask(table, Unwrap(ref))

\* the table is the old one with one row appended: the task this create asked for
InsertedOne(cmd) ==
    /\ Len(tasks') = Len(tasks) + 1
    /\ SubSeq(tasks', 1, Len(tasks)) = tasks
    /\ LET row == tasks'[Len(tasks')]
       IN  /\ row.id = cmd.res.val
           /\ ~HasTask(tasks, row.id)
           /\ from_int(row.done) = "pending"
           /\ row.title = cmd.title
           /\ row.description = cmd.description
           /\ row.parent_id = cmd.parent
           /\ row.depend_id = cmd.depend

\* C6 as stated: create on an open store fails and inserts nothing if parent or depend
\* is supplied and names no existing task; otherwise it inserts exactly one new task
\* with a fresh id, status pending and the given title, description, parent_id and
\* depend_id, and returns that id.
C6_CreateRule_AsStated ==
    [][(last'.op = "create" /\ dbExists) =>
          IF NamesNoTask(tasks, last'.parent) \/ NamesNoTask(tasks, last'.depend)
          THEN ~last'.res.ok /\ tasks' = tasks
          ELSE last'.res.ok /\ InsertedOne(last')]_vars

\* C6: create on an open store fails and inserts nothing if parent or depend is
\* supplied and names no existing task; otherwise it either inserts exactly one new
\* task with a fresh id, status pending and the given title, description, parent_id and
\* depend_id and returns that id, or, the table being non-empty, fails with the
\* allocator's exhaustion error and inserts nothing.
C6_CreateRule ==
    [][(last'.op = "create" /\ dbExists) =>
          IF NamesNoTask(tasks, last'.parent) \/ NamesNoTask(tasks, last'.depend)
          THEN ~last'.res.ok /\ tasks' = tasks
          ELSE \/ last'.res.ok /\ InsertedOne(last')
               \/ /\ ~last'.res.ok
                  /\ ErrFormat(last'.res) = MsgExhausted
                  /\ tasks # <<>>
                  /\ tasks' = tasks]_vars

\* a create with a parent and a dependency, both existing, inserted its task
C6_Witness ==
    /\ last.op = "create" /\ last.res.ok
    /\ IsSome(last.parent) /\ IsSome(last.depend)
    /\ \E i \in DOMAIN tasks :
          /\ tasks[i].id = last.res.val
          /\ tasks[i].parent_id = last.parent
          /\ tasks[i].depend_id = last.depend

\* C7: a command whose store operation returns an error leaves the tasks table and the
\* memories table as they were before it.
C7_ErrorLeavesTables ==
    [][~last'.res.ok => (tasks' = tasks /\ memories' = memories)]_vars

\* the allocator gave up on a memory: every candidate it drew is in the table
C7_Witness ==
    /\ last.op = "memory_create" /\ ~last.res.ok
    /\ ErrFormat(last.res) = MsgExhausted
    /\ memories # <<>>

\* no two rows of the table share an id
UniqueIds(table) ==
    \A i, j \in DOMAIN table : table[i].id = table[j].id => i = j

\* C8: an id that create or memory create returns is 6 characters over [a-z0-9] and
\* was not in its table before the call, and after every step no two rows of tasks and
\* no two rows of memories share an id.
C8_AllocatedIds ==
    [][/\ (last'.op = "create" /\ last'.res.ok) =>
             (validate_id(last'.res.val).ok /\ ~HasTask(tasks, last'.res.val))
       /\ (last'.op = "memory_create" /\ last'.res.ok) =>
             (validate_id(last'.res.val).ok /\ ~HasTask(memories, last'.res.val))
       /\ UniqueIds(tasks') /\ UniqueIds(memories')]_vars

\* a second task was created next to a first: the id returned is the new row's
C8_Witness ==
    /\ last.op = "create" /\ last.res.ok
    /\ Len(tasks) = 2
    /\ tasks[2].id = last.res.val
    /\ tasks[1].id # tasks[2].id

\* C9: list without flags and without a parent returns exactly the pending tasks, each
\* once, in the order of their creation, which is the order of the rows in the table.
C9_ListCreationOrder ==
    (last.op = "list" /\ last.res.ok /\ ~last.inprogress /\ ~last.all /\ last.parent = None)
        => LET Pending(r) == from_int(r.done) = "pending"
               rows == SelectSeq(tasks, Pending)
           IN  last.res.val = [i \in DOMAIN rows |-> TaskSummary(rows[i])]

\* the format strings of the errors the task store and the memory store return
StoreMessages ==
    { MsgInvalidId, MsgExhausted, MsgParentNotFound, MsgDependNotFound, MsgTaskNotFound,
      MsgInProgress, MsgAlreadyDone, MsgDependsNotDone, MsgActiveDependents,
      MsgHasChildren, MsgMemoryNotFound }

\* C10: when the store operation of a tool invocation fails, the server writes a
\* response that has a result and no error object, whose result has isError set and
\* whose one content item is the text of the store's error message.
C10_StoreErrorInsideSuccess ==
    [][(request'.method = "tools/call" /\ last'.ran /\ ~last'.res.ok) =>
          /\ IsSome(reply')
          /\ Unwrap(reply').error = None
          /\ IsSome(Unwrap(reply').result)
          /\ LET result == Unwrap(Unwrap(reply').result)
             IN  /\ result.isError = Some(TRUE)
                 /\ Len(result.content) = 1
                 /\ result.content[1].type = "text"
                 /\ result.content[1].text = to_string(last'.res.err)
                 /\ result.content[1].text[1] \in StoreMessages]_vars

\* the remove tool was refused because the task has a child, and said so in its reply
C10_Witness ==
    /\ request.method = "tools/call" /\ request.name = JsonString("remove")
    /\ last.ran /\ ~last.res.ok
    /\ ErrFormat(last.res) = MsgHasChildren
    /\ IsSome(reply)
    /\ Unwrap(Unwrap(reply).result).isError = Some(TRUE)
    /\ Unwrap(Unwrap(reply).result).content[1].text = <<MsgHasChildren, 1, Unwrap(last.id)>>

\* the methods handle_request has an arm for
KnownMethods == { "initialize", "notifications/initialized", "tools/list", "tools/call" }
DeclaredTools == { get_tools[i] : i \in DOMAIN get_tools }
\* the tool a tools/call request names
NamedTool(line) == unwrap_or(as_str(line.name), "")
IsProtocolError(response) == IsSome(response.error) /\ response.result = None
\* the reply is a successful response whose result is a tool-level failure with this text
IsToolFailure(r, text) ==
    /\ IsSome(r)
    /\ Unwrap(r).error = None
    /\ IsSome(Unwrap(r).result)
    /\ Unwrap(Unwrap(r).result).isError = Some(TRUE)
    /\ Unwrap(Unwrap(r).result).content = << [type |-> "text", text |-> text] >>

\* a line of input: what the server read was not the end of stdin
IsInputLine(line) == line.kind \in { "empty", "garbage", "unreadable", "request" }
IsAcknowledgment(line) == line.kind = "request" /\ line.method = "notifications/initialized"

\* C11: the reply to a line is a protocol-level error (an error object with a numeric
\* code and no result) exactly when the line failed to parse, named a method the
\* server does not know, or was a tools/call naming a tool outside the declared set.
C11_ProtocolErrorIff ==
    IsSome(reply) =>
        (IsProtocolError(Unwrap(reply)) <=>
            \/ request.kind = "garbage"
            \/ request.kind = "request" /\ request.method \notin KnownMethods
            \/ /\ request.kind = "request" /\ request.method = "tools/call"
               /\ NamedTool(request) \notin DeclaredTools)

\* C12: a tools/call of any tool but init, whatever its arguments, that arrives while
\* there is no store gets a tool-level failure with the not-initialized message, runs
\* no store operation and leaves the project without a store.
C12_NoStoreNoOperation ==
    [][(/\ request'.kind = "request" /\ request'.method = "tools/call"
        /\ NamedTool(request') # "init"
        /\ ~dbExists) =>
          /\ IsToolFailure(reply', <<NOT_INITIALIZED_ERROR>>)
          /\ ~last'.ran
          /\ ~dbExists'
          /\ StoreUnchanged]_vars

\* create was called before any init: the reply says the project is not initialized
C12_Witness ==
    /\ request.method = "tools/call" /\ request.name = JsonString("create")
    /\ ~dbExists
    /\ IsToolFailure(reply, <<NOT_INITIALIZED_ERROR>>)
    /\ ~last.ran

\* C13: during the life of one server process the store is opened, and migrate_db run,
\* at most once.
C13_OpenedAtMostOnce == opens <= 1

\* C14: the server writes a reply for every non-empty input line other than the
\* acknowledgment notification and none for an empty line or the acknowledgment, and
\* after the line it is still in its loop for the next one.
C14_OneReplyPerLine ==
    IsInputLine(request) =>
        /\ IsSome(reply) <=> ~(request.kind = "empty" \/ IsAcknowledgment(request))
        /\ serverUp

\* the text of the one content item of a tool result
ResultText(r) == Unwrap(Unwrap(r).result).content[1].text

\* C15: the reply a turn of the loop writes answers the line that turn read: it carries
\* the id of a parsed request and no id after a parse failure; a tool reply reports the
\* outcome of the store operation of this turn, and the changes it reports (the task a
\* create returned, the task a remove deleted) are in the store when the turn ends.
C15_ReplyAnswersItsLine ==
    [][IsSome(reply') =>
          /\ Unwrap(reply').id = (IF request'.kind = "request" THEN request'.id ELSE None)
          /\ last'.ran =>
                /\ IsSome(Unwrap(reply').result)
                /\ (Unwrap(Unwrap(reply').result).isError = Some(TRUE)) <=> ~last'.res.ok
          /\ (last'.ran /\ last'.op = "create" /\ last'.res.ok) =>
                /\ ResultText(reply') = to_string_pretty([id |-> last'.res.val])
                /\ HasTask(tasks', last'.res.val)
          /\ (last'.ran /\ last'.op = "remove" /\ last'.res.ok) =>
                ~HasTask(tasks', Unwrap(last'.id))]_vars

\* a create with a request id was answered: same id, and the new task is stored
C15_Witness ==
    /\ request.method = "tools/call" /\ request.name = JsonString("create")
    /\ IsSome(request.id) /\ IsSome(reply)
    /\ Unwrap(reply).id = request.id
    /\ last.ran /\ last.res.ok
    /\ HasTask(tasks, last.res.val)

\* C16: migrate on a store whose schema_version is absent or below 1 rewrites every task
\* row with status code 1 to 2 and leaves the other rows' codes as they are (0 stays
\* 0); after migrate on a store at version 0, 1 or 2 the stored schema_version is 2;
\* and schema_version never decreases.
C16_MigrateStatusAndVersion ==
    [][last'.ran =>
          LET v == SchemaVersion(meta)
          IN  /\ (last'.op = "ids" /\ v < 1) =>
                    /\ Len(tasks') = Len(tasks)
                    /\ \A i \in DOMAIN tasks :
                          tasks'[i].done = (IF tasks[i].done = 1 THEN 2 ELSE tasks[i].done)
              /\ v \in {0, 1, 2} => SchemaVersion(meta') = 2
              /\ SchemaVersion(meta') >= v]_vars

\* a store without schema_version was opened: its done (1) task now has code 2, its
\* pending task still 0, and the version is 2
C16_Witness ==
    /\ last.op = "ids" /\ last.version = Some(0)
    /\ SchemaVersion(meta) = 2
    /\ \E i \in DOMAIN tasks : tasks[i].done = 2
    /\ \E i \in DOMAIN tasks : tasks[i].done = 0

\* C17: migrate on a store that is at the latest version changes nothing, migrating
\* twice gives what migrating once gives, and migration v1 changes no task of a store
\* at version 1 or later.
C17_MigrateIdempotent ==
    [][last'.op = "ids" =>
          /\ SchemaVersion(meta) >= 2 => StoreUnchanged
          /\ SchemaVersion(meta) >= 1 => tasks' = tasks
          /\ migrate_db(migrate_db(Db)) = migrate_db(Db)]_vars

\* a store at version 2 with a task in progress was opened again: the task is still in
\* progress
C17_Witness ==
    /\ last.op = "ids" /\ last.version = Some(2)
    /\ \E i \in DOMAIN tasks : tasks[i].done = 1

\* C18: migrate inserts and deletes no task and no memory, changes no task's id, title,
\* description, parent_id, depend_id or created_at and no memory at all; of the rows it
\* may change only status codes, and in meta only the schema_version entry.
C18_MigrateKeepsRows ==
    [][last'.op = "ids" =>
          /\ Len(tasks') = Len(tasks)
          /\ \A i \in DOMAIN tasks :
                [tasks'[i] EXCEPT !.done = 0] = [tasks[i] EXCEPT !.done = 0]
          /\ memories' = memories
          /\ { r \in meta' : r[1] # "schema_version" } = { r \in meta : r[1] # "schema_version" }
       ]_vars

\* a store at version 1 with two tasks was opened: both tasks are there
C18_Witness ==
    /\ last.op = "ids" /\ last.version = Some(1)
    /\ Len(tasks) = MaxLegacyRows
    /\ \A i \in DOMAIN tasks : tasks[i].id = LegacyId(i) /\ tasks[i].title = "A"

\* t occurs in text, character for character
IsSubstring(t, text) ==
    \E k \in 0..(Len(text) - Len(t)) : SubSeq(text, k + 1, k + Len(t)) = t

\* the request is a tools/call of this tool that reached its store operation
IsCall(name) ==
    /\ request.kind = "request" /\ request.method = "tools/call"
    /\ request.name = JsonString(name)
    /\ last.ran

\* the ids of the entries a list or search returned
ReturnedIds(res) == { res.val[i].id : i \in DOMAIN res.val }

\* C19: list(tag = t) returns exactly the stored memories whose tags contain t as a
\* substring (a memory without tags is never returned), search(q) exactly those whose
\* content contains q as a substring, and right after a successful remove the memory
\* is not in the table.
C19_MemoryRetrieval ==
    /\ (IsCall("memory_list") /\ last.res.ok /\ IsSome(as_str(request.arguments.tag))
        /\ request.arguments.last = Null) =>
          ReturnedIds(last.res) =
              { memories[i].id : i \in { j \in DOMAIN memories :
                  /\ IsSome(memories[j].tags)
                  /\ IsSubstring(Unwrap(as_str(request.arguments.tag)),
                                 Unwrap(memories[j].tags)) } }
    /\ (IsCall("memory_search") /\ last.res.ok) =>
          ReturnedIds(last.res) =
              { memories[i].id : i \in { j \in DOMAIN memories :
                  IsSubstring(Unwrap(as_str(request.arguments.query)), memories[j].content) } }
    /\ (IsCall("memory_remove") /\ last.res.ok) => ~HasTask(memories, Unwrap(last.id))

\* C20: memory list returns the entries that pass its tag filter newest-created first,
\* also among entries with the same created_at, cut to the first N with last = N.
C20_MemoryListNewestFirst ==
    (IsCall("memory_list") /\ last.res.ok) =>
        LET tag == as_str(request.arguments.tag)
            last_n == as_u64(request.arguments.last)
            Where(r) == IsSome(tag) =>
                            (IsSome(r.tags) /\ Like(Unwrap(r.tags), Contains(Unwrap(tag))))
            rows == SelectSeq(memories, Where)
            n == Len(rows)
            newest == [i \in 1..n |-> Memory(rows[n + 1 - i])]
        IN  last.res.val = (IF IsSome(last_n) THEN truncate(newest, Unwrap(last_n)) ELSE newest)

TaskOps == { "create", "list", "show", "update", "start", "done", "remove" }
MemoryOps == { "memory_create", "memory_show", "memory_remove" }

\* what the allocator answers for each table does not depend on the other table
AllocatorsIndependent ==
    \A draws \in DrawSeqs :
        /\ create_task(Db, "A", "desc", None, None, draws, clock).res
             = create_task([Db EXCEPT !.memories = <<>>], "A", "desc", None, None, draws, clock).res
        /\ create_memory(Db, <<"x">>, None, draws, clock).res
             = create_memory([Db EXCEPT !.tasks = <<>>], <<"x">>, None, draws, clock).res

\* C21: task ids and memory ids are separate namespaces: an allocation for one table
\* answers the same whatever the other table holds (so it accepts an id present only
\* there), no memory command changes the tasks table and no task command changes the
\* memories table.
C21_SeparateNamespaces ==
    /\ [] AllocatorsIndependent
    /\ [][ /\ last'.op \in MemoryOps => tasks' = tasks
           /\ last'.op \in TaskOps => memories' = memories ]_vars

\* a memory was removed by an id that a task carries too, and the task is still there
C21_Witness ==
    /\ last.op = "memory_remove" /\ last.res.ok
    /\ HasTask(tasks, Unwrap(last.id))
    /\ ~HasTask(memories, Unwrap(last.id))

\* what an allocation for the table answers, for every sequence of candidates drawn
AllocateRule(table) ==
    \A draws \in DrawSeqs :
        LET r == generate_id(table, draws)
            present(a) == HasTask(table, draws[a])
        IN  /\ Len(draws) = 100
            /\ IF \A a \in 1..100 : present(a)
               THEN ~r.ok /\ ErrFormat(r) = MsgExhausted
               ELSE /\ r.ok
                    /\ \E a \in 1..100 :
                          /\ r.val = draws[a]
                          /\ ~present(a)
                          /\ \A b \in 1..(a - 1) : present(b)

\* C22: an allocation draws at most 100 candidates; it returns the first candidate drawn
\* that is not in the table, or fails with the exhaustion error when all 100 are in the
\* table; a command whose allocation is exhausted leaves the store as it was, and when
\* the allocation succeeds the table changes only by the caller's one inserted row.
C22_AllocateRule ==
    /\ [] (AllocateRule(tasks) /\ AllocateRule(memories))
    /\ [][ /\ (last'.op \in { "create", "memory_create" } /\ ~last'.res.ok
               /\ ErrFormat(last'.res) = MsgExhausted) => StoreUnchanged
           /\ (last'.op = "create" /\ last'.res.ok) =>
                 (SubSeq(tasks', 1, Len(tasks)) = tasks /\ Len(tasks') = Len(tasks) + 1)
           /\ (last'.op = "memory_create" /\ last'.res.ok) =>
                 (SubSeq(memories', 1, Len(memories)) = memories
                  /\ Len(memories') = Len(memories) + 1) ]_vars

\* a create whose 100 candidates were all the id of the one task in the table
C22_Witness ==
    /\ last.op = "create" /\ ~last.res.ok
    /\ ErrFormat(last.res) = MsgExhausted
    /\ Len(tasks) = 1

\* C23: a successful update of a task, whatever its status, replaces that task's
\* description and changes nothing else in the store; in every step a task that is in
\* the table before and after keeps its id, title, parent_id, depend_id and created_at,
\* its description differs only if the step is an update of it, and its status differs
\* only if the step is a start or a complete of it.
C23_UpdateOnlyDescription ==
    [][ /\ (last'.op = "update" /\ last'.res.ok) =>
              /\ HasTask(tasks, Unwrap(last'.id))
              /\ tasks' = [i \in DOMAIN tasks |->
                             IF tasks[i].id = Unwrap(last'.id)
                             THEN [tasks[i] EXCEPT !.description = last'.description]
                             ELSE tasks[i]]
              /\ memories' = memories
        /\ \A i \in DOMAIN tasks : \A j \in DOMAIN tasks' :
              tasks[i].id = tasks'[j].id =>
                  /\ tasks'[j].title = tasks[i].title
                  /\ tasks'[j].parent_id = tasks[i].parent_id
                  /\ tasks'[j].depend_id = tasks[i].depend_id
                  /\ tasks'[j].created_at = tasks[i].created_at
                  /\ tasks'[j].description # tasks[i].description =>
                        (last'.op = "update" /\ last'.id = Some(tasks[i].id))
                  /\ tasks'[j].done # tasks[i].done =>
                        (last'.op \in { "start", "done" } /\ last'.id = Some(tasks[i].id)) ]_vars

\* the description of a done task was replaced, next to a task that kept its own
C23_Witness ==
    /\ last.op = "update" /\ last.res.ok
    /\ Len(tasks) = 2
    /\ \E i, j \in DOMAIN tasks :
          /\ tasks[i].id = Unwrap(last.id)
          /\ tasks[i].done = 2
          /\ tasks[i].description = "desc2"
          /\ tasks[j].description = "desc"

\* the table without the rows that carry this id, the others in their order
WithoutTask(table, id) ==
    LET Other(r) == r.id # id IN SelectSeq(table, Other)

\* C24: a successful remove(id) takes exactly the one row with that id out of the tasks
\* table: every other task row is as it was (a done task whose depend_id is id keeps
\* that depend_id) and the memories are as they were; and a step after which a task of
\* the table is gone is a successful remove of that task.
C24_RemoveDeletesOneRow ==
    [][ /\ (last'.op = "remove" /\ last'.res.ok) =>
              /\ HasTask(tasks, Unwrap(last'.id))
              /\ tasks' = WithoutTask(tasks, Unwrap(last'.id))
              /\ Len(tasks') = Len(tasks) - 1
              /\ memories' = memories
        /\ \A i \in DOMAIN tasks :
              ~HasTask(tasks', tasks[i].id) =>
                  (last'.op = "remove" /\ last'.res.ok /\ last'.id = Some(tasks[i].id)) ]_vars

\* a task was removed and the one task left, which is done, still names it as its
\* dependency
C24_Witness ==
    /\ last.op = "remove" /\ last.res.ok
    /\ Len(tasks) = 1
    /\ tasks[1].done = 2
    /\ tasks[1].depend_id = last.id
    /\ tasks[1].id # Unwrap(last.id)

\* exactly 6 characters, each of a..z or 0..9
WellFormed(id) ==
    /\ Len(id) = 6
    /\ \A i \in 1..Len(id) : id[i] \in AsciiLowercase \cup AsciiDigit

\* the id argument is supplied and malformed
Malformed(ref) == IsSome(ref) /\ ~WellFormed(Unwrap(ref))

\* the commands that take an id, a parent or a dependency
IdOps ==
    { "show", "update", "start", "done", "remove", "create", "list",
      "memory_show", "memory_remove" }

\* the result is the validation error that names this id
IsValidationOf(res, ref) == ~res.ok /\ to_string(res.err) = <<MsgInvalidId, Unwrap(ref)>>

\* the result is a not-found error that names this id
IsNotFoundOf(res, ref) ==
    /\ ~res.ok
    /\ ErrFormat(res) \in { MsgTaskNotFound, MsgParentNotFound, MsgDependNotFound,
                            MsgMemoryNotFound }
    /\ to_string(res.err)[2] = Unwrap(ref)

\* C25 as stated: a command on an open store that is given a malformed id (as its id,
\* its parent or its dependency) fails with the validation error and leaves both tables
\* unchanged.
C25_MalformedIdIsValidation_AsStated ==
    [][ (last'.ran /\ last'.op \in IdOps
         /\ (Malformed(last'.id) \/ Malformed(last'.parent) \/ Malformed(last'.depend))) =>
            /\ ~last'.res.ok
            /\ ErrFormat(last'.res) = MsgInvalidId
            /\ tasks' = tasks /\ memories' = memories ]_vars

\* C25: a command on an open store that is given a malformed id (as its id, its parent
\* or its dependency) fails and leaves both tables unchanged, and its error never reports
\* the malformed id as not found; the error is the validation error naming that id,
\* except for a create whose dependency is malformed and whose parent is supplied and
\* fails its own check first: that create reports the parent (validation error if the
\* parent is malformed, not-found if it names no task).
C25_MalformedIdIsValidation ==
    [][ (last'.ran /\ last'.op \in IdOps) =>
            /\ (Malformed(last'.id) \/ Malformed(last'.parent) \/ Malformed(last'.depend)) =>
                  (~last'.res.ok /\ tasks' = tasks /\ memories' = memories)
            /\ Malformed(last'.id) =>
                  (IsValidationOf(last'.res, last'.id) /\ ~IsNotFoundOf(last'.res, last'.id))
            /\ Malformed(last'.parent) =>
                  (IsValidationOf(last'.res, last'.parent)
                   /\ ~IsNotFoundOf(last'.res, last'.parent))
            /\ Malformed(last'.depend) =>
                  /\ ~IsNotFoundOf(last'.res, last'.depend)
                  /\ IF ~IsSome(last'.parent) \/ HasTask(tasks, Unwrap(last'.parent))
                     THEN IsValidationOf(last'.res, last'.depend)
                     ELSE IF Malformed(last'.parent)
                          THEN IsValidationOf(last'.res, last'.parent)
                          ELSE to_string(last'.res.err)
                                 = <<MsgParentNotFound, Unwrap(last'.parent)>> ]_vars

\* a create with an existing parent and a malformed dependency failed with the
\* validation error that names the dependency
C25_Witness ==
    /\ last.op = "create" /\ last.ran
    /\ IsSome(last.parent) /\ HasTask(tasks, Unwrap(last.parent))
    /\ Malformed(last.depend)
    /\ IsValidationOf(last.res, last.depend)

\* C26: every task in the table, created from the command line or through the create
\* tool (also by a call whose arguments have no title), has a title that is not empty.
C26_TitleNonEmpty ==
    \A i \in DOMAIN tasks : tasks[i].title # ""

\* the 13 tool names of the specification
ThirteenTools ==
    { "init", "create", "list", "show", "update", "start", "done", "remove",
      "memory_create", "memory_list", "memory_show", "memory_search", "memory_remove" }

\* the request is a tools/call that names a tool and carries a request id
IsNamedCall ==
    /\ request.kind = "request" /\ request.method = "tools/call"
    /\ IsSome(as_str(request.name)) /\ IsSome(request.id)

\* C27: the reply to tools/list names exactly the 13 tools, each once; a listed tool is
\* dispatched to its handler (its call is never answered "Unknown tool"), and on an open
\* store a call of any name that is not listed is answered "Unknown tool".
C27_ListedIffInvocable ==
    /\ (request.kind = "request" /\ request.method = "tools/list" /\ IsSome(reply)) =>
          LET listed == Unwrap(Unwrap(reply).result).tools
          IN  /\ { listed[i].name : i \in DOMAIN listed } = ThirteenTools
              /\ Len(listed) = 13
    /\ IsNamedCall =>
          LET name == NamedTool(request)
              unknown == IsToolFailure(reply, <<MsgUnknownTool, name>>)
          IN  /\ name \in ThirteenTools => ~unknown
              /\ (name \notin ThirteenTools /\ dbExists) => unknown
              /\ (name \in ThirteenTools /\ dbExists) => last.op = name

\* tools/list was answered with its list
C27_Witness ==
    /\ request.kind = "request" /\ request.method = "tools/list"
    /\ IsSome(reply)
    /\ Len(Unwrap(Unwrap(reply).result).tools) = 13
    /\ dbExists

\* the status the flags of a list ask for: every status with all, else in_progress
\* with inprogress, else pending
PassesFilter(cmd, status) ==
    \/ cmd.all
    \/ ~cmd.all /\ cmd.inprogress /\ status = "in_progress"
    \/ ~cmd.all /\ ~cmd.inprogress /\ status = "pending"

\* C28: list with parent = P, P a well-formed id, fails with the parent-not-found error
\* when no task has the id P; otherwise it succeeds and returns, each once, exactly the
\* tasks whose parent_id is P (children of children are not among them) and whose
\* status passes the filter: pending by default, in_progress with the inprogress flag,
\* every status with the all flag, also when both flags are set.
C28_ListByParent ==
    (last.op = "list" /\ last.ran /\ IsSome(last.parent)) =>
        LET P == Unwrap(last.parent)
            wanted == { i \in DOMAIN tasks :
                          /\ tasks[i].parent_id = Some(P)
                          /\ PassesFilter(last, from_int(tasks[i].done)) }
        IN  IF ~HasTask(tasks, P)
            THEN ~last.res.ok /\ to_string(last.res.err) = <<MsgParentNotFound, P>>
            ELSE /\ last.res.ok
                 /\ Len(last.res.val) = Cardinality(wanted)
                 /\ { last.res.val[k] : k \in DOMAIN last.res.val }
                      = { [id |-> tasks[i].id, title |-> tasks[i].title,
                           status |-> from_int(tasks[i].done),
                           parent_id |-> tasks[i].parent_id,
                           depend_id |-> tasks[i].depend_id] : i \in wanted }

\* list with the all flag and a parent that has a child and a grandchild returned the
\* child alone
C28_Witness ==
    /\ last.op = "list" /\ last.res.ok /\ last.all /\ IsSome(last.parent)
    /\ Len(last.res.val) = 1
    /\ \E c, g \in DOMAIN tasks :
          /\ tasks[c].parent_id = last.parent
          /\ tasks[g].parent_id = Some(tasks[c].id)
          /\ last.res.val[1].id = tasks[c].id

\* the tasks that are not done and name id as their dependency
ActiveDependents(id) ==
    { i \in DOMAIN tasks : tasks[i].depend_id = Some(id) /\ from_int(tasks[i].done) # "done" }

\* the tasks that name id as their parent
Children(id) == { i \in DOMAIN tasks : tasks[i].parent_id = Some(id) }

\* C29: a remove of an existing task that is refused says how many tasks block it: the
\* number of tasks that are not done and depend on it, in the active-dependents
\* message, or else the number of its children, in the children message; the two
\* messages differ, and with blockers of both kinds the active-dependents message and
\* its count are returned.
C29_RemoveCounts ==
    /\ MsgActiveDependents # MsgHasChildren
    /\ (last.op = "remove" /\ last.ran /\ ~last.res.ok /\ HasTask(tasks, Unwrap(last.id))) =>
          LET id == Unwrap(last.id)
          IN  IF ActiveDependents(id) # {}
              THEN to_string(last.res.err)
                     = <<MsgActiveDependents, Cardinality(ActiveDependents(id)), id>>
              ELSE /\ Children(id) # {}
                   /\ to_string(last.res.err)
                        = <<MsgHasChildren, Cardinality(Children(id)), id>>

\* a remove was refused with the count of two active dependents although the task has
\* a child as well
C29_Witness ==
    /\ last.op = "remove" /\ ~last.res.ok
    /\ to_string(last.res.err) = <<MsgActiveDependents, 2, Unwrap(last.id)>>
    /\ Cardinality(ActiveDependents(Unwrap(last.id))) = 2
    /\ Children(Unwrap(last.id)) # {}

\* row i is not done and depends on row j, which is not done either
WaitsFor(i, j) ==
    /\ tasks[i].done < 2 /\ tasks[j].done < 2
    /\ tasks[i].depend_id = Some(tasks[j].id)

\* row j is reached from row i by n or fewer such links, and at least one
RECURSIVE WaitsWithin(_, _, _)
WaitsWithin(i, j, n) ==
    /\ n > 0
    /\ \/ WaitsFor(i, j)
       \/ \E k \in DOMAIN tasks : WaitsFor(i, k) /\ WaitsWithin(k, j, n - 1)

\* the rows that complete operations can bring to done in n rounds, given the rows in
\* finished: a row is completed when its dependency is absent, names no row, or names a
\* row that is done or finished
RECURSIVE Completable(_, _)
Completable(finished, n) ==
    IF n = 0 THEN finished
    ELSE Completable(
             finished \cup
             { i \in DOMAIN tasks :
                 \/ tasks[i].depend_id = None
                 \/ \A j \in DOMAIN tasks :
                       tasks[j].id = Unwrap(tasks[i].depend_id) => j \in finished },
             n - 1)

\* C30: in every reachable state no task that is not done waits, through depend_id
\* links between tasks that are not done, for itself; and every task that is not done
\* can be brought to done by completing tasks in some order.
C30_NoDependencyCycle ==
    /\ \A i \in DOMAIN tasks : ~WaitsWithin(i, i, Len(tasks))
    /\ Completable({ i \in DOMAIN tasks : tasks[i].done = 2 }, Len(tasks)) = DOMAIN tasks

\* a removed task's id was given to a new task: the new task depends on a done task
\* that names the new task's id as its own dependency
C30_Witness ==
    \E i, j \in DOMAIN tasks :
        /\ tasks[i].done < 2 /\ tasks[j].done = 2
        /\ tasks[i].depend_id = Some(tasks[j].id)
        /\ tasks[j].depend_id = Some(tasks[i].id)

\* C31: in every reachable state, a task that is done and whose depend_id names a task
\* of the table has that task done as well, also when a new task was given the id of a
\* removed one.
C31_DoneDependsOnDone ==
    \A i, j \in DOMAIN tasks :
        (tasks[i].done = 2 /\ tasks[i].depend_id = Some(tasks[j].id)) => tasks[j].done = 2

\* row j is reached from row i by n or fewer parent_id links, and at least one
RECURSIVE AncestorWithin(_, _, _)
AncestorWithin(i, j, n) ==
    /\ n > 0
    /\ \/ tasks[i].parent_id = Some(tasks[j].id)
       \/ \E k \in DOMAIN tasks :
             tasks[i].parent_id = Some(tasks[k].id) /\ AncestorWithin(k, j, n - 1)

\* C32: in every reachable state no task names its own id as parent_id or as depend_id,
\* and no task is reached from itself by following parent_id links.
C32_NoSelfReferenceNoParentCycle ==
    \A i \in DOMAIN tasks :
        /\ tasks[i].parent_id # Some(tasks[i].id)
        /\ tasks[i].depend_id # Some(tasks[i].id)
        /\ ~AncestorWithin(i, i, Len(tasks))

\* a task was created under a parent that has a parent itself, which has none
C32_Witness ==
    /\ last.op = "create" /\ last.res.ok
    /\ \E i, j, k \in DOMAIN tasks :
          /\ tasks[k].id = last.res.val
          /\ tasks[k].parent_id = Some(tasks[j].id)
          /\ tasks[j].parent_id = Some(tasks[i].id)
          /\ tasks[i].parent_id = None

\* C33: from a store that init has just created, which has no schema_version row, and
\* with migrate_db run at the start of every command: a task that is in_progress is
\* still in_progress after any step that keeps it in the table, unless the step is a
\* successful complete of that task; and while a task is in_progress the store has a
\* schema_version of at least 1, so that no later migration rewrites its status.
C33_InProgressUntilComplete ==
    /\ [] ((\E i \in DOMAIN tasks : tasks[i].done = 1) => SchemaVersion(meta) >= 1)
    /\ [][ \A i \in DOMAIN tasks : \A j \in DOMAIN tasks' :
              (tasks[i].id = tasks'[j].id /\ from_int(tasks[i].done) = "in_progress") =>
                  \/ from_int(tasks'[j].done) = "in_progress"
                  \/ /\ last'.op = "done" /\ last'.res.ok
                     /\ last'.id = Some(tasks[i].id)
                     /\ from_int(tasks'[j].done) = "done" ]_vars

\* a command that is no start and no complete opened the store, and so ran the
\* migration, while a task was in_progress, and the task still is
C33_Witness ==
    /\ last.op = "show" /\ last.ran /\ last.res.ok
    /\ last.version = Some(2)
    /\ last.res.val.status = "in_progress"
    /\ \E i \in DOMAIN tasks : tasks[i].id = Unwrap(last.id) /\ tasks[i].done = 1

\* C34: when two processes run start and complete on the same task with their status
\* reads and status writes interleaved in any order, no step moves the task's stored
\* status from done back to in_progress.
C34_RaceNeverDoneToInProgress ==
    [][\A i \in DOMAIN tasks : \A j \in DOMAIN tasks' :
          (tasks[i].id = tasks'[j].id /\ from_int(tasks[i].done) = "done")
             => from_int(tasks'[j].done) # "in_progress"]_vars

\* the two processes of a race have both returned
RaceOver == \A p \in Procs : procs[p].pc = "finished"

\* C35: when two processes run create with the allocator's existence checks and the
\* inserts interleaved in any order, no two rows of tasks ever share an id; when both
\* creates succeed they returned different ids, and a create whose insert is refused
\* returns the failure and leaves the table as it was.
C35_RaceUniqueIds ==
    /\ [] UniqueIds(tasks)
    /\ [] (\A p, q \in Procs :
             (/\ p # q
              /\ procs[p].op = "create" /\ procs[p].pc = "finished" /\ procs[p].res.ok
              /\ procs[q].op = "create" /\ procs[q].pc = "finished" /\ procs[q].res.ok)
                => procs[p].res.val # procs[q].res.val)
    /\ [][\A p \in Procs :
            (/\ procs[p].op = "create" /\ procs[p].pc = "insert"
             /\ procs'[p].pc = "finished" /\ ~procs'[p].res.ok)
               => (tasks' = tasks /\ ErrFormat(procs'[p].res) = MsgUnique)]_vars

\* both processes found the same candidate free, one inserted it and the other's
\* insert was refused
C35_Witness ==
    /\ RaceOver
    /\ \E p, q \in Procs :
          /\ procs[p].op = "create" /\ procs[p].res.ok
          /\ procs[q].op = "create" /\ ~procs[q].res.ok
          /\ procs[q].res.err = << <<MsgUnique, procs[p].res.val>> >>
          /\ procs[q].newid = procs[p].res.val
          /\ CountId(tasks, procs[p].res.val) = 1

\* C36: when one process runs create with parent = P or depend = P while another runs
\* remove(P), their checks and their insert and delete interleaved in any order, the
\* store they leave has no task whose parent_id names a missing task and no task that
\* is not done whose depend_id names a missing task.
C36_RaceNoDanglingReference ==
    (/\ RaceOver
     /\ \E p, q \in Procs :
           /\ procs[p].op = "create"
           /\ procs[q].op = "remove"
           /\ Some(procs[q].id) \in { procs[p].parent, procs[p].depend })
       => \A i \in DOMAIN tasks :
             /\ IsSome(tasks[i].parent_id) => HasTask(tasks, Unwrap(tasks[i].parent_id))
             /\ (IsSome(tasks[i].depend_id) /\ from_int(tasks[i].done) # "done")
                   => HasTask(tasks, Unwrap(tasks[i].depend_id))

\* the tools whose handler requires a string id
IdTools == { "show", "update", "start", "done", "remove", "memory_show", "memory_remove" }

IsInitCall(line) ==
    line.kind = "request" /\ line.method = "tools/call" /\ NamedTool(line) = "init"

\* C38: the init tool on a project that has a store returns success and leaves every
\* task, every memory and the schema_version as they were; what init makes of a store
\* that init has made is that same store.
C38_InitIdempotent ==
    /\ [] (init_project(TRUE, init_project(dbExists, Db).db).db
              = init_project(dbExists, Db).db)
    /\ [][(IsInitCall(request') /\ dbExists) =>
             /\ IsSome(reply') /\ Unwrap(reply').error = None
             /\ Unwrap(reply').result =
                   Some(ToolResultJson([success |-> TRUE, path |-> "./.tsk/tsk.sqlite"]))
             /\ dbExists'
             /\ tasks' = tasks /\ memories' = memories /\ meta' = meta
             /\ SchemaVersion(meta') = SchemaVersion(meta)]_vars

\* init was called on a migrated store that holds a task and a memory, and succeeded
C38_Witness ==
    /\ IsInitCall(request)
    /\ dbExists /\ SchemaVersion(meta) = 2
    /\ Len(tasks) > 0 /\ Len(memories) > 0
    /\ IsSome(reply)
    /\ Unwrap(reply).result =
          Some(ToolResultJson([success |-> TRUE, path |-> "./.tsk/tsk.sqlite"]))

\* C39: initialize and tools/list are answered with a successful response (the server's
\* name, version and capabilities; the list of tools) whether or not the project has a
\* store, and a turn of the server on one of them, on the notifications/initialized
\* acknowledgment or on a method the server does not know neither creates nor opens
\* the store, runs no store operation and changes nothing in the store.
C39_HandshakeTouchesNoStore ==
    [][(/\ request'.kind = "request"
        /\ request'.method # "tools/call") =>
          /\ request'.method = "initialize" =>
                reply' = Some(JsonRpcResponseSuccess(request'.id, InitializeResult))
          /\ request'.method = "tools/list" =>
                reply' = Some(JsonRpcResponseSuccess(request'.id, ToolsListResult))
          /\ IsAcknowledgment(request') => reply' = None
          /\ request'.method \notin KnownMethods =>
                (IsSome(reply') /\ IsProtocolError(Unwrap(reply')))
          /\ dbExists' = dbExists
          /\ opens' = opens
          /\ ~last'.ran
          /\ StoreUnchanged]_vars

\* tools/list was answered on a project whose store init has made and nothing has
\* opened since: the store has still no schema_version, which the first open writes
C39_Witness ==
    /\ request.kind = "request" /\ request.method = "tools/list"
    /\ reply = Some(JsonRpcResponseSuccess(request.id, ToolsListResult))
    /\ dbExists /\ opens = 0
    /\ SchemaVersion(meta) = 0

====
